---- MODULE Spec2Model ----
(***************************************************************************)
(* Model of the receipt-bot python service: platform classification,       *)
(* scraper dispatch (ScraperFactory) and the four scrape pipelines         *)
(* (TikTok, YouTube, Instagram, Web) with their temporary-file cleanup.    *)
(*                                                                         *)
(* Strings the code inspects (URLs, file names, captions) are sequences of *)
(* one-character strings, so that lower(), `in`, split(), glob() and       *)
(* with_suffix() are computed as the code computes them.  Optional[str]    *)
(* values are <<>> (None) or <<s>>.                                        *)
(***************************************************************************)
EXTENDS Integers, Sequences, FiniteSets, TLC

(* ------------------------------ bounds -------------------------------- *)
\* number of worker threads of the gRPC thread pool that are modelled
NumWorkers == 2

Workers == 1..NumWorkers

(* --------------------------- string helpers --------------------------- *)
UpperChars == <<"A","B","C","D","E","F","G","H","I","J","K","L","M","N","O","P","Q","R","S","T","U","V","W","X","Y","Z">>
LowerChars == <<"a","b","c","d","e","f","g","h","i","j","k","l","m","n","o","p","q","r","s","t","u","v","w","x","y","z">>

\* str.lower() on one character
LowerChar(c) ==
    IF \E i \in 1..Len(UpperChars) : UpperChars[i] = c
    THEN LowerChars[CHOOSE i \in 1..Len(UpperChars) : UpperChars[i] = c]
    ELSE c

\* str.lower()
Lower(s) == [i \in 1..Len(s) |-> LowerChar(s[i])]

\* `sub in s` for strings
Contains(s, sub) ==
    \E i \in 1..(Len(s) - Len(sub) + 1) : SubSeq(s, i, i + Len(sub) - 1) = sub

\* str.startswith / str.endswith
StartsWith(s, p) == Len(p) <= Len(s) /\ SubSeq(s, 1, Len(p)) = p
EndsWith(s, p) == Len(p) <= Len(s) /\ SubSeq(s, Len(s) - Len(p) + 1, Len(s)) = p

\* str.rstrip('/')
RECURSIVE RStripSlash(_)
RStripSlash(s) ==
    IF Len(s) > 0 /\ s[Len(s)] = "/" THEN RStripSlash(SubSeq(s, 1, Len(s) - 1)) ELSE s

\* str.split('/'): the sequence of segments between the slashes
SplitSlash(s) ==
    LET slashes == {i \in 1..Len(s) : s[i] = "/"}
        n == Cardinality(slashes) + 1
        \* the position of the j-th slash; 0 and Len(s) + 1 bound the string
        at(j) == IF j = 0 THEN 0
                 ELSE IF j = n THEN Len(s) + 1
                 ELSE CHOOSE i \in slashes :
                         Cardinality({x \in slashes : x < i}) = j - 1
    IN  [j \in 1..n |-> SubSeq(s, at(j - 1) + 1, at(j) - 1)]

\* `x in parts` and parts.index(x) for a list
InList(x, parts) == \E i \in 1..Len(parts) : parts[i] = x
IndexOf(x, parts) ==
    CHOOSE i \in 1..Len(parts) : parts[i] = x /\ \A j \in 1..(i - 1) : parts[j] # x

\* Path.with_suffix(suf): replace the part of the name from its last dot
\* (a dot that starts the name does not begin a suffix)
WithSuffix(name, suf) ==
    IF \E i \in 2..Len(name) : name[i] = "."
    THEN LET k == CHOOSE i \in 2..Len(name) :
                      name[i] = "." /\ \A j \in (i + 1)..Len(name) : name[j] # "."
         IN  SubSeq(name, 1, k - 1) \o suf
    ELSE name \o suf

(* ------------------------- platform classifier ------------------------ *)
PLATFORM_UNKNOWN == 0
PLATFORM_TIKTOK == 1
PLATFORM_YOUTUBE == 2
PLATFORM_INSTAGRAM == 3
PLATFORM_WEB == 4

Platform == {PLATFORM_UNKNOWN, PLATFORM_TIKTOK, PLATFORM_YOUTUBE,
             PLATFORM_INSTAGRAM, PLATFORM_WEB}

MarkerTikTok == <<"t","i","k","t","o","k",".","c","o","m">>
MarkerYouTube == <<"y","o","u","t","u","b","e",".","c","o","m">>
MarkerYouTuBe == <<"y","o","u","t","u",".","b","e">>
MarkerInstagram == <<"i","n","s","t","a","g","r","a","m",".","c","o","m">>

\* a classifier that looks for the YouTube markers before the TikTok marker
detect_platform_youtube_first(url) ==
    LET url_lower == Lower(url)
    IN  IF Contains(url_lower, MarkerYouTube) \/ Contains(url_lower, MarkerYouTuBe)
        THEN PLATFORM_YOUTUBE
        ELSE IF Contains(url_lower, MarkerTikTok) THEN PLATFORM_TIKTOK
        ELSE IF Contains(url_lower, MarkerInstagram) THEN PLATFORM_INSTAGRAM
        ELSE PLATFORM_WEB

\* a classifier that compares the URL as written, without lowercasing it
detect_platform_case_sensitive(url) ==
    LET url_lower == url
    IN  IF Contains(url_lower, MarkerTikTok) THEN PLATFORM_TIKTOK
        ELSE IF Contains(url_lower, MarkerYouTube) \/ Contains(url_lower, MarkerYouTuBe)
             THEN PLATFORM_YOUTUBE
        ELSE IF Contains(url_lower, MarkerInstagram) THEN PLATFORM_INSTAGRAM
        ELSE PLATFORM_WEB

detect_platform(url) ==
    LET url_lower == Lower(url)
    IN  IF Contains(url_lower, MarkerTikTok) THEN PLATFORM_TIKTOK
        ELSE IF Contains(url_lower, MarkerYouTube) \/ Contains(url_lower, MarkerYouTuBe)
             THEN PLATFORM_YOUTUBE
        ELSE IF Contains(url_lower, MarkerInstagram) THEN PLATFORM_INSTAGRAM
        ELSE PLATFORM_WEB

(* ------------------------------ scrapers ------------------------------ *)
YouTubeScraper == "YouTubeScraper"
TikTokScraper == "TikTokScraper"
InstagramScraper == "InstagramScraper"
WebScraper == "WebScraper"

Scrapers == {YouTubeScraper, TikTokScraper, InstagramScraper, WebScraper}
VideoScrapers == {YouTubeScraper, TikTokScraper}

\* TikTokScraper.can_handle
TikTok_can_handle(url) == Contains(Lower(url), MarkerTikTok)

\* a YouTube predicate that knows the long marker only
YouTube_can_handle_long_only(url) ==
    LET url_lower == Lower(url)
    IN  Contains(url_lower, MarkerYouTube)

\* YouTubeScraper.can_handle
YouTube_can_handle(url) ==
    LET url_lower == Lower(url)
    IN  Contains(url_lower, MarkerYouTube) \/ Contains(url_lower, MarkerYouTuBe)

\* InstagramScraper.can_handle
Instagram_can_handle(url) == Contains(Lower(url), MarkerInstagram)

\* WebScraper.can_handle: the fallback for all other URLs
Web_can_handle(url) == TRUE

\* scraper.can_handle(url), dispatched on the scraper's class
can_handle(scraper, url) ==
    CASE scraper = TikTokScraper -> TikTok_can_handle(url)
      [] scraper = YouTubeScraper -> YouTube_can_handle(url)
      [] scraper = InstagramScraper -> Instagram_can_handle(url)
      [] scraper = WebScraper -> Web_can_handle(url)

\* ScraperFactory._scrapers: the registry built by __init__; <<>> is dict.get's None
ScraperRegistry(platform) ==
    CASE platform = PLATFORM_YOUTUBE -> <<YouTubeScraper>>
      [] platform = PLATFORM_TIKTOK -> <<TikTokScraper>>
      [] platform = PLATFORM_INSTAGRAM -> <<InstagramScraper>>
      [] platform = PLATFORM_WEB -> <<WebScraper>>
      [] OTHER -> <<>>

\* get_scraper without the can_handle check of lines 55-58
get_scraper_trusting_hint(url, hint) ==
    LET platform == IF hint = <<>> \/ hint[1] = PLATFORM_UNKNOWN
                    THEN detect_platform(url) ELSE hint[1]
        scraper == ScraperRegistry(platform)
    IN  IF scraper = <<>> \/ platform = PLATFORM_WEB THEN WebScraper
        ELSE scraper[1]

\* get_scraper that re-detects the platform when the hinted scraper declines
get_scraper_redetecting(url, hint) ==
    LET platform == IF hint = <<>> \/ hint[1] = PLATFORM_UNKNOWN
                    THEN detect_platform(url) ELSE hint[1]
        scraper == ScraperRegistry(platform)
    IN  IF scraper = <<>> \/ platform = PLATFORM_WEB THEN WebScraper
        ELSE IF ~can_handle(scraper[1], url)
             THEN ScraperRegistry(detect_platform(url))[1]
        ELSE scraper[1]

\* get_scraper that classifies the URL for a WEB hint as it does for UNKNOWN
get_scraper_web_hint_detecting(url, hint) ==
    LET platform == IF hint = <<>> \/ hint[1] \in {PLATFORM_UNKNOWN, PLATFORM_WEB}
                    THEN detect_platform(url) ELSE hint[1]
        scraper == ScraperRegistry(platform)
    IN  IF scraper = <<>> \/ platform = PLATFORM_WEB THEN WebScraper
        ELSE IF ~can_handle(scraper[1], url) THEN WebScraper
        ELSE scraper[1]

\* ScraperFactory.get_scraper(url, platform); hint is <<>> (None) or <<p>>
get_scraper(url, hint) ==
    LET platform == IF hint = <<>> \/ hint[1] = PLATFORM_UNKNOWN
                    THEN detect_platform(url) ELSE hint[1]
        scraper == ScraperRegistry(platform)
    IN  IF scraper = <<>> \/ platform = PLATFORM_WEB THEN WebScraper
        ELSE IF ~can_handle(scraper[1], url) THEN WebScraper
        ELSE scraper[1]

\* the functions get_scraper calls on the way, in order: detect_platform at
\* line 46, the registered scraper's can_handle at line 55
get_scraper_calls(url, hint) ==
    LET detects == hint = <<>> \/ hint[1] = PLATFORM_UNKNOWN
        platform == IF detects THEN detect_platform(url) ELSE hint[1]
        scraper == ScraperRegistry(platform)
    IN  (IF detects THEN <<"detect_platform">> ELSE <<>>)
        \o (IF scraper = <<>> \/ platform = PLATFORM_WEB THEN <<>>
            ELSE <<"can_handle">>)

(* ------------------- inputs and collaborator outcomes ----------------- *)
UrlTikTok == <<"h","t","t","p","s",":","/","/","w","w","w",".","t","i","k","t","o","k",".","c","o","m","/","@","u","/","v","i","d","e","o","/","7">>
UrlTikTokUpper == <<"H","T","T","P","S",":","/","/","V","M",".","T","I","K","T","O","K",".","C","O","M","/","Z","M","7","/">>
UrlYouTube == <<"h","t","t","p","s",":","/","/","w","w","w",".","y","o","u","t","u","b","e",".","c","o","m","/","w","a","t","c","h","?","v","=","a","1">>
UrlYouTuBe == <<"h","t","t","p","s",":","/","/","y","o","u","t","u",".","b","e","/","a","1">>
UrlReel == <<"h","t","t","p","s",":","/","/","w","w","w",".","i","n","s","t","a","g","r","a","m",".","c","o","m","/","r","e","e","l","/","A","b","1","/">>
UrlPost == <<"h","t","t","p","s",":","/","/","w","w","w",".","I","n","s","t","a","g","r","a","m",".","c","o","m","/","p","/","A","b","1">>
UrlProfile == <<"h","t","t","p","s",":","/","/","w","w","w",".","i","n","s","t","a","g","r","a","m",".","c","o","m","/","c","h","e","f","/">>
UrlWeb == <<"h","t","t","p","s",":","/","/","e","x","a","m","p","l","e",".","c","o","m","/","r","e","c","i","p","e">>

\* the URLs a caller may submit
Urls == {UrlTikTok, UrlTikTokUpper, UrlYouTube, UrlYouTuBe,
         UrlReel, UrlPost, UrlProfile, UrlWeb}

\* the platform hints a caller may pass: None or a Platform member
Hints == {<<>>} \cup {<<p>> : p \in Platform}

ExtMp4 == <<".","m","p","4">>
ExtMp3 == <<".","m","p","3">>
ExtTxt == <<".","t","x","t">>

CaptionYum == <<"y","u","m">>

\* what yt-dlp's extract_info may report for a downloaded video
DownloadInfos ==
    { [id |-> <<"a","1">>, ext |-> <<"m","p","4">>, title |-> "Pasta",
       description |-> d, uploader |-> "chef", duration |-> 120] :
      d \in {<<>>, CaptionYum} }

\* what instaloader may report for a post (caption is Optional[str])
Posts ==
    { [caption |-> c, owner_username |-> "chef", likes |-> 7, is_video |-> v] :
      c \in {<<>>, <<CaptionYum>>}, v \in BOOLEAN }

\* what a speech-to-text backend may return
Transcripts == {"", "mix and bake"}

\* failure descriptions, str(e) of the exception a collaborator raises
DownloadError == "ERROR: unable to download video data"
PostError == "Fetching Post metadata failed"
FFmpegError == "ffmpeg error (see stderr output for detail)"
TranscriptionError == "transcription request failed"
FetchError == "404 Client Error: Not Found for url"
ShortcodeError == "Could not extract shortcode from URL"
SchemaTypeError == "the JSON object must be str, bytes or bytearray, not NoneType"

\* a fetched page: its ld+json script blocks in document order and its text;
\* a block is unparseable JSON, a script tag without a string, a JSON object
\* of another @type, or a Recipe object
BlockKinds == {"malformed", "nostring", "other", "recipe"}

\* Python's None where a str is expected (soup.title.string of an empty
\* title element); it differs from every string value of the model
NoneValue == "None"

Pages ==
    { [blocks |-> b, text |-> <<"H","e","l","l","o">>, title |-> t] :
      b \in {<<>>} \cup {<<k>> : k \in BlockKinds} \cup {<<"malformed", "recipe">>},
      t \in {"Home", NoneValue} }

(* ------------------------------ results ------------------------------- *)
\* base.ScrapeResult; error is Optional[str]
ScrapeResult(captions, description, transcript, original_url, metadata, error) ==
    [captions |-> captions, description |-> description, transcript |-> transcript,
     original_url |-> original_url, metadata |-> metadata, error |-> error]

\* the empty dict; a dict is modelled as its set of <<key, value>> items
EmptyDict == {}

\* an except block that drops the failure description
ErrorResult_without_error(url, e) ==
    ScrapeResult(<<>>, <<>>, "", url, EmptyDict, <<>>)

\* an except block that does not echo the URL
ErrorResult_without_url(url, e) ==
    ScrapeResult(<<>>, <<>>, "", <<>>, EmptyDict, <<e>>)

\* the result every scraper builds in its `except Exception as e` block
ErrorResult(url, e) ==
    ScrapeResult(<<>>, <<>>, "", url, EmptyDict, <<e>>)

\* Python truthiness of ScrapeResult.error (None and "" are falsy)
ErrorPopulated(error) == error # <<>> /\ error[1] # ""

\* Python truthiness of an optional path (None and the empty path are falsy)
PathSet(path) == path # <<>> /\ path[1] # <<>>

(* ------------------------------- state -------------------------------- *)
\* calls[w]: the scrape call worker thread w is running, with its locals;
\* fs: the names of the files present in output_dir;
\* fn: the last application of one of the helper functions, with its
\*     argument and its value;
\* transcriber: the Transcriber object and its last transcribe call
VARIABLES calls, fs, fn, transcriber

vars == <<calls, fs, fn, transcriber>>

\* no helper function has been applied
NoFn == [op |-> "none", arg |-> <<>>, parts |-> <<>>, res |-> <<>>, again |-> FALSE]

\* no Transcriber has been constructed
NoTranscriber ==
    [state |-> "absent", provider |-> "", backend |-> <<>>, use_api |-> FALSE,
     config |-> <<>>, args |-> <<>>, last |-> <<>>]

\* the scrape pipelines leave the helper-function record and the
\* Transcriber object as they are
ScrapeOnly == UNCHANGED <<fn, transcriber>>

\* a worker with no request; the locals hold their values at scrape entry
IdleCall ==
    [pc |-> "idle", url |-> <<>>, hint |-> <<>>, transcribe |-> FALSE,
     scraper |-> WebScraper,
     video_path |-> <<>>, audio_path |-> <<>>,
     captions |-> <<>>, metadata |-> EmptyDict, transcript |-> "",
     exc |-> <<>>, result |-> <<>>, raised |-> FALSE,
     fetched |-> <<>>, stages |-> <<>>, failed |-> {},
     written |-> {}, undeleted |-> {}, response |-> <<>>, replied |-> FALSE]

Init ==
    /\ calls = [w \in Workers |-> IdleCall]
    /\ fs = {}
    /\ fn = NoFn
    /\ transcriber = NoTranscriber

\* factory.scrape_url / ScraperServicer.ScrapeContent lines 47-50:
\* dispatch, then enter scraper.scrape(url, transcribe)
Dispatch(w, url, hint, transcribe) ==
    /\ calls[w].pc = "idle"
    /\ calls' = [calls EXCEPT ![w] =
                   [IdleCall EXCEPT !.pc = "fetch", !.url = url, !.hint = hint,
                                    !.transcribe = transcribe,
                                    !.scraper = get_scraper(url, hint)]]
    /\ UNCHANGED fs

\* a request with any of the URLs, any hint and either flag
ScrapeUrl(w) ==
    \E url \in Urls, hint \in Hints, transcribe \in BOOLEAN :
        Dispatch(w, url, hint, transcribe)

\* an outer try that runs the failed primary stage again
PrimaryFailed_retrying(c, stage, msg) ==
    [c EXCEPT !.exc = IF @ = <<>> THEN <<msg>> ELSE <<>>]

\* an exception raised in the outer try body: control moves to the
\* `except Exception as e` block of scrape
PrimaryFailed(c, stage, msg) ==
    [c EXCEPT !.pc = "except", !.exc = <<msg>>,
              !.stages = Append(@, stage), !.failed = @ \cup {stage}]

\* a scrape without the inner try: the sub-stage exception reaches the outer
\* except block
SubStageFailed_fatal(c, stage, msg) ==
    [c EXCEPT !.pc = "except", !.exc = <<msg>>,
              !.stages = Append(@, stage), !.failed = @ \cup {stage}]

\* an inner try that runs a failed sub-stage a second time before giving up
SubStageFailed_retrying(c, stage, msg) ==
    IF stage \in c.failed
    THEN [c EXCEPT !.pc = "assemble", !.stages = Append(@, stage)]
    ELSE [c EXCEPT !.stages = Append(@, stage), !.failed = @ \cup {stage}]

\* an exception raised inside the inner try (youtube.py 63-74, tiktok.py
\* 62-73, instagram.py 82-105): logged, and scrape continues to the result
SubStageFailed(c, stage, msg) ==
    [c EXCEPT !.pc = "assemble",
              !.stages = Append(@, stage), !.failed = @ \cup {stage}]

\* str(download_result.get('duration', 0)) and str(post.likes)
Str(n) == ToString(n)

\* VideoDownloader.download called by YouTubeScraper.scrape / TikTokScraper.scrape,
\* and the assignments up to `if transcribe:`
Download(w) ==
    LET c == calls[w] IN
    /\ c.pc = "fetch"
    /\ c.scraper \in VideoScrapers
    /\ \/ \E info \in DownloadInfos :
             LET video_path == info.id \o <<".">> \o info.ext
                 metadata == {<<"title", info.title>>, <<"author", info.uploader>>,
                              <<"duration", Str(info.duration)>>}
             IN  /\ fs' = fs \cup {video_path}
                 /\ calls' = [calls EXCEPT ![w] =
                       [c EXCEPT !.pc = IF c.transcribe THEN "extract" ELSE "assemble",
                                 !.video_path = <<video_path>>,
                                 !.captions = info.description,
                                 !.metadata = metadata,
                                 !.fetched = <<[captions |-> info.description,
                                                metadata |-> metadata]>>,
                                 !.stages = Append(@, "download"),
                                 !.written = @ \cup {video_path}]]
       \/ /\ calls' = [calls EXCEPT ![w] = PrimaryFailed(c, "download", DownloadError)]
          /\ UNCHANGED fs

\* AudioExtractor.extract_audio(video_path) inside the inner try.  ffmpeg
\* writes to video_path.with_suffix('.mp3'); the caller learns audio_path
\* only when the call returns.  A failing run may already have created its
\* output file.
ExtractAudio(w) ==
    LET c == calls[w]
        video_path == c.video_path[1]
        audio_path == WithSuffix(video_path, ExtMp3)
    IN
    /\ c.pc = "extract"
    /\ \/ /\ video_path \in fs
          /\ fs' = fs \cup {audio_path}
          /\ calls' = [calls EXCEPT ![w] =
                [c EXCEPT !.pc = "transcribe", !.audio_path = <<audio_path>>,
                          !.stages = Append(@, "extract"),
                          !.written = @ \cup {audio_path}]]
       \/ \E partial \in BOOLEAN :
             /\ partial => video_path \in fs
             /\ fs' = IF partial THEN fs \cup {audio_path} ELSE fs
             /\ calls' = [calls EXCEPT ![w] =
                   [SubStageFailed(c, "extract", FFmpegError)
                       EXCEPT !.written = IF partial THEN @ \cup {audio_path} ELSE @]]

\* Transcriber.transcribe(audio_path) inside the inner try
Transcribe(w) ==
    LET c == calls[w] IN
    /\ c.pc = "transcribe"
    /\ \/ /\ c.audio_path[1] \in fs
          /\ \E text \in Transcripts :
                calls' = [calls EXCEPT ![w] =
                   [c EXCEPT !.pc = "assemble", !.transcript = text,
                             !.stages = Append(@, "transcribe")]]
       \/ calls' = [calls EXCEPT ![w] = SubStageFailed(c, "transcribe", TranscriptionError)]
    /\ UNCHANGED fs

\* a shortcode extraction that knows the '/p/' form only
_extract_shortcode_p_only(url) ==
    LET parts == SplitSlash(RStripSlash(url))
    IN  IF InList(<<"p">>, parts)
        THEN LET idx == IndexOf(<<"p">>, parts)
             IN  IF idx + 1 <= Len(parts) THEN parts[idx + 1] ELSE <<>>
        ELSE <<>>

\* InstagramScraper._extract_shortcode
_extract_shortcode(url) ==
    LET after(parts) ==
            IF InList(<<"p">>, parts) \/ InList(<<"r","e","e","l">>, parts)
            THEN LET idx == IF InList(<<"p">>, parts) THEN IndexOf(<<"p">>, parts)
                            ELSE IndexOf(<<"r","e","e","l">>, parts)
                 IN  IF idx + 1 <= Len(parts) THEN parts[idx + 1] ELSE <<>>
            ELSE <<>>
    IN  CHOOSE shortcode \in {after(parts) : parts \in {SplitSlash(RStripSlash(url))}} : TRUE

\* captions[:100]
TitleLen == 100
Truncate(s, n) == SubSeq(s, 1, IF Len(s) < n THEN Len(s) ELSE n)
DefaultTitle == <<"I","n","s","t","a","g","r","a","m"," ","P","o","s","t">>

\* InstagramScraper.scrape lines 60-85: shortcode, Post.from_shortcode and the
\* reads of the post's fields, up to the call of download_post
FetchPost(w) ==
    LET c == calls[w] IN
    /\ c.pc = "fetch"
    /\ c.scraper = InstagramScraper
    /\ UNCHANGED fs
    /\ \E shortcode \in {_extract_shortcode(c.url)} :
       IF shortcode = <<>>
       THEN calls' = [calls EXCEPT ![w] =
                [c EXCEPT !.pc = "except", !.exc = <<ShortcodeError>>,
                          !.failed = @ \cup {"shortcode"}]]
       ELSE \/ calls' = [calls EXCEPT ![w] = PrimaryFailed(c, "post", PostError)]
            \/ \E post \in Posts :
                 LET captions == IF post.caption = <<>> THEN <<>> ELSE post.caption[1]
                     metadata == {<<"title", IF captions # <<>>
                                             THEN Truncate(captions, TitleLen)
                                             ELSE DefaultTitle>>,
                                  <<"author", post.owner_username>>,
                                  <<"likes", Str(post.likes)>>}
                 IN  calls' = [calls EXCEPT ![w] =
                        [c EXCEPT !.pc = IF post.is_video THEN "download" ELSE "assemble",
                                  !.captions = captions,
                                  !.metadata = metadata,
                                  !.fetched = <<[captions |-> captions,
                                                 metadata |-> metadata]>>,
                                  !.video_path = IF post.is_video
                                                 THEN <<shortcode \o ExtMp4>> ELSE <<>>,
                                  !.stages = Append(@, "post")]]

\* Path.glob(pattern) over output_dir for the two patterns the scraper uses
GlobMp4(files, shortcode) ==
    {f \in files : /\ Len(f) >= Len(shortcode) + Len(ExtMp4)
                   /\ StartsWith(f, shortcode) /\ EndsWith(f, ExtMp4)}
GlobPrefix(files, shortcode) == {f \in files : StartsWith(f, shortcode)}

\* InstagramScraper.scrape lines 87-94: loader.download_post, the glob for
\* the video, and the test of `transcribe`.  instaloader names what it
\* writes `{shortcode}.<ext>`: the video and, when it saves it, the caption.
DownloadPost(w) ==
    LET c == calls[w] IN
    /\ c.pc = "download"
    /\ \E shortcode \in {_extract_shortcode(c.url)} :
       LET video == shortcode \o ExtMp4
           caption == shortcode \o ExtTxt
       IN
       \/ \E extra \in SUBSET {caption} :
             LET files == fs \cup {video} \cup extra
                 downloaded_files == GlobMp4(files, shortcode)
             IN  /\ fs' = files
                 /\ IF downloaded_files # {}
                    THEN \E first \in downloaded_files :
                           calls' = [calls EXCEPT ![w] =
                              [c EXCEPT !.pc = IF c.transcribe THEN "extract" ELSE "assemble",
                                        !.video_path = <<first>>,
                                        !.stages = Append(@, "download"),
                                        !.written = @ \cup {video} \cup extra]]
                    ELSE calls' = [calls EXCEPT ![w] =
                              [c EXCEPT !.pc = "assemble",
                                        !.stages = Append(@, "download"),
                                        !.written = @ \cup {video} \cup extra]]
       \/ \E partial \in SUBSET {video, caption} :
             /\ fs' = fs \cup partial
             /\ calls' = [calls EXCEPT ![w] =
                   [SubStageFailed(c, "download", DownloadError)
                       EXCEPT !.written = @ \cup partial]]

\* '\n'.join(parts) and str(i)
LF == "\n"

RECURSIVE JoinLines(_)
JoinLines(parts) ==
    IF parts = <<>> THEN <<>>
    ELSE IF Len(parts) = 1 THEN parts[1]
    ELSE parts[1] \o <<LF>> \o JoinLines(Tail(parts))

Digits == <<"0","1","2","3","4","5","6","7","8","9">>

RECURSIVE DecimalChars(_)
DecimalChars(n) ==
    IF n < 10 THEN <<Digits[n + 1]>>
    ELSE DecimalChars(n \div 10) \o <<Digits[(n % 10) + 1]>>

\* a synthesis that never unwraps the text field of an instruction object
InstructionText_str(instruction) == instruction.str

\* web.py 129-133: instruction.get('text', str(instruction)) for a dict,
\* str(instruction) otherwise.  An instruction is given with its str() form;
\* text is <<>> for a dict without a 'text' key
InstructionText(instruction) ==
    IF instruction.is_dict /\ instruction.text # <<>>
    THEN instruction.text[1]
    ELSE instruction.str

\* web.py 116-135: description_parts for list-valued recipeIngredient and
\* recipeInstructions, joined with newlines
RecipeDescription(data) ==
    LET ingredients == data.recipeIngredient
        instructions == data.recipeInstructions
        ingredient_parts ==
            IF ingredients # <<>>
            THEN <<<<"I","N","G","R","E","D","I","E","N","T","S",":">>>> \o ingredients \o << <<>> >>
            ELSE <<>>
        instruction_parts ==
            IF instructions # <<>>
            THEN <<<<"I","N","S","T","R","U","C","T","I","O","N","S",":">>>>
                 \o [i \in 1..Len(instructions) |->
                        DecimalChars(i) \o <<".", " ">> \o InstructionText(instructions[i])]
            ELSE <<>>
    IN  JoinLines(ingredient_parts \o instruction_parts)

\* instructions as they occur in recipe blocks: a plain string, objects with
\* a text field, and an object without one
StepStir == [is_dict |-> FALSE, text |-> <<>>, str |-> <<"S","t","i","r">>]
StepMix == [is_dict |-> TRUE, text |-> <<<<"M","i","x">>>>,
            str |-> <<"{","'","t","e","x","t","'",":"," ","'","M","i","x","'","}">>]
StepBake == [is_dict |-> TRUE, text |-> <<<<"B","a","k","e">>>>,
             str |-> <<"{","'","t","e","x","t","'",":"," ","'","B","a","k","e","'","}">>]
StepNamed == [is_dict |-> TRUE, text |-> <<>>,
              str |-> <<"{","'","n","a","m","e","'",":"," ","'","R","e","s","t","'","}">>]
Flour == <<"f","l","o","u","r">>
Sugar == <<"s","u","g","a","r">>

\* the recipe of the pages that carry a Recipe block
SampleRecipe ==
    [recipeIngredient |-> <<Flour, Sugar>>, recipeInstructions |-> <<StepMix, StepBake>>]

\* the dict _extract_recipe_schema returns for a Recipe block
RecipeData ==
    {<<"title", "Pancakes">>, <<"description", RecipeDescription(SampleRecipe)>>,
     <<"author", "chef">>, <<"prep_time", "PT5M">>, <<"cook_time", "PT10M">>,
     <<"servings", "4">>}

\* dict.get(key, default) on a dict given as its set of items
DictGet(dict, key, default) ==
    IF \E kv \in dict : kv[1] = key
    THEN (CHOOSE kv \in dict : kv[1] = key)[2]
    ELSE default

\* WebScraper._extract_recipe_schema: the loop over the ld+json scripts from
\* block i on.  json.JSONDecodeError, AttributeError and KeyError skip the
\* block; a script tag without a string makes json.loads raise TypeError,
\* which the loop does not catch.  value is <<>> for None.
RECURSIVE ExtractFrom(_, _)
ExtractFrom(blocks, i) ==
    IF i > Len(blocks) THEN [raised |-> FALSE, value |-> <<>>]
    ELSE CASE blocks[i] = "malformed" -> ExtractFrom(blocks, i + 1)
           [] blocks[i] = "nostring" -> [raised |-> TRUE, value |-> <<>>]
           [] blocks[i] = "other" -> ExtractFrom(blocks, i + 1)
           [] blocks[i] = "recipe" -> [raised |-> FALSE, value |-> <<RecipeData>>]

_extract_recipe_schema(page) == ExtractFrom(page.blocks, 1)

\* a web result that carries a transcript when transcription was requested
WebResult_transcribing(c, text, metadata) ==
    ScrapeResult(text, text, IF c.transcribe THEN "mix and bake" ELSE "",
                 c.url, metadata, <<>>)

\* the ScrapeResult WebScraper.scrape builds from a recipe block (web.py
\* 56-63) or from the page text (web.py 67-74): transcript is the literal ""
WebResult(c, text, metadata) ==
    ScrapeResult(text, text, "", c.url, metadata, <<>>)

\* WebScraper.scrape: session.get + raise_for_status, then the whole try
\* body; the scraper has no finally block, so a result is returned at once
FetchPage(w) ==
    LET c == calls[w] IN
    /\ c.pc = "fetch"
    /\ c.scraper = WebScraper
    /\ UNCHANGED fs
    /\ \/ calls' = [calls EXCEPT ![w] = PrimaryFailed(c, "fetch", FetchError)]
       \/ \E page \in Pages :
             LET recipe_data == _extract_recipe_schema(page) IN
             IF recipe_data.raised
             THEN calls' = [calls EXCEPT ![w] =
                      [c EXCEPT !.pc = "except", !.exc = <<SchemaTypeError>>,
                                !.fetched = <<page>>,
                                !.stages = Append(@, "fetch"),
                                !.failed = @ \cup {"schema"}]]
             ELSE IF recipe_data.value # <<>>
             THEN LET description == DictGet(recipe_data.value[1], "description", <<>>)
                  IN  calls' = [calls EXCEPT ![w] =
                         [c EXCEPT !.pc = "returned",
                                   !.fetched = <<page>>,
                                   !.stages = Append(@, "fetch"),
                                   !.result = <<WebResult(c, description,
                                                          recipe_data.value[1])>>]]
             ELSE calls' = [calls EXCEPT ![w] =
                         [c EXCEPT !.pc = "returned",
                                   !.fetched = <<page>>,
                                   !.stages = Append(@, "fetch"),
                                   !.result = <<WebResult(c, page.text,
                                                          {<<"title", page.title>>})>>]]

\* a result that reports the swallowed sub-stage failure in `error`
SuccessResult_with_error(c) ==
    [captions |-> c.captions, description |-> c.captions, transcript |-> c.transcript,
     original_url |-> c.url, metadata |-> c.metadata,
     error |-> IF c.failed = {} THEN <<>> ELSE <<"Transcription failed">>]

\* the ScrapeResult the three video-capable scrapers build after the inner
\* try (youtube.py 76-85, tiktok.py 75-84, instagram.py 107-116)
SuccessResult(c) ==
    ScrapeResult(c.captions, c.captions, c.transcript, c.url, c.metadata, <<>>)

AssembleResult(w) ==
    LET c == calls[w] IN
    /\ c.pc = "assemble"
    /\ calls' = [calls EXCEPT ![w] =
          [c EXCEPT !.pc = "cleanup", !.result = <<SuccessResult(c)>>]]
    /\ UNCHANGED fs

\* the `except Exception as e` block of each scrape; WebScraper.scrape has
\* no finally block and returns from it directly
HandleException(w) ==
    LET c == calls[w] IN
    /\ c.pc = "except"
    /\ calls' = [calls EXCEPT ![w] =
          [c EXCEPT !.pc = IF c.scraper = WebScraper THEN "returned" ELSE "cleanup",
                    !.result = <<ErrorResult(c.url, c.exc[1])>>]]
    /\ UNCHANGED fs

\* cleanup_files without the try/except around unlink: the first failing
\* unlink raises out of the function
cleanup_files_raising(files, file_paths, failing) ==
    LET given == {file_paths[i][1] : i \in {j \in 1..Len(file_paths) : PathSet(file_paths[j])}}
        existing == given \cap files
    IN  IF existing \cap failing # {}
        THEN [fs |-> files, raised |-> TRUE]
        ELSE [fs |-> files \ existing, raised |-> FALSE]

\* utils.cleanup.cleanup_files(*file_paths) on the directory content `files`;
\* `failing` are the files whose unlink raises.  Each unlink is inside a
\* try/except that logs the failure, so nothing is raised to the caller.
cleanup_files(files, file_paths, failing) ==
    LET given == {file_paths[i][1] : i \in {j \in 1..Len(file_paths) : PathSet(file_paths[j])}}
        existing == given \cap files
    IN  [fs |-> files \ (existing \ failing), raised |-> FALSE]

\* a finally block without the glob over `{shortcode}*`
cleanup_instaloader_skipped(files, url, video_path, failing) == files

\* InstagramScraper.scrape lines 132-140: unlink every output_dir file whose
\* name starts with the shortcode, ignoring failures
cleanup_instaloader(files, url, video_path, failing) ==
    IF PathSet(video_path)
    THEN CHOOSE remaining \in
            {IF shortcode # <<>>
             THEN files \ (GlobPrefix(files, shortcode) \ failing)
             ELSE files : shortcode \in {_extract_shortcode(url)}} : TRUE
    ELSE files

\* the finally block of YouTubeScraper / TikTokScraper / InstagramScraper
\* .scrape run on the directory content `files`
FinallyBlock(c, files, failing) ==
    LET first == cleanup_files(files, <<c.video_path, c.audio_path>>, failing)
    IN  IF c.scraper = InstagramScraper /\ ~first.raised
        THEN [fs |-> cleanup_instaloader(first.fs, c.url, c.video_path, failing),
              raised |-> FALSE]
        ELSE first

\* the finally block runs, then the call returns its result (or lets an
\* exception raised by the block escape); any of the unlink calls it makes
\* may fail
Cleanup(w) ==
    LET c == calls[w]
        attempted == fs \ FinallyBlock(c, fs, {}).fs
    IN
    /\ c.pc = "cleanup"
    /\ \E failing \in SUBSET attempted :
          LET done == FinallyBlock(c, fs, failing)
          IN  /\ fs' = done.fs
              /\ calls' = [calls EXCEPT ![w] =
                    [c EXCEPT !.pc = "returned",
                              !.raised = done.raised,
                              !.result = IF done.raised THEN <<>> ELSE @,
                              !.stages = Append(@, "cleanup"),
                              !.undeleted = failing]]

\* the caller receives the result; the worker thread is free again
Return(w) ==
    /\ calls[w].pc = "returned"
    /\ calls' = [calls EXCEPT ![w] = IdleCall]
    /\ UNCHANGED fs

\* Spec serves the requests one at a time (a thread pool of one worker at a
\* time in use); calls that overlap in time are not part of Spec
NoCallInFlight == \A w \in Workers : calls[w].pc = "idle"

Next ==
    \E w \in Workers :
        \/ NoCallInFlight /\ ScrapeUrl(w) /\ ScrapeOnly
        \/ Download(w) /\ ScrapeOnly
        \/ ExtractAudio(w) /\ ScrapeOnly
        \/ Transcribe(w) /\ ScrapeOnly
        \/ FetchPost(w) /\ ScrapeOnly
        \/ DownloadPost(w) /\ ScrapeOnly
        \/ FetchPage(w) /\ ScrapeOnly
        \/ AssembleResult(w) /\ ScrapeOnly
        \/ HandleException(w) /\ ScrapeOnly
        \/ Cleanup(w) /\ ScrapeOnly
        \/ Return(w) /\ ScrapeOnly

Spec == Init /\ [][Next]_vars

(* ------------------------------ properties ---------------------------- *)
InFlight(w) == calls[w].pc # "idle"
Returned(w) == calls[w].pc = "returned"
ResultOf(w) == calls[w].result[1]

\* the scraper registered for a non-WEB platform hint
HintedScraper(hint) == ScraperRegistry(hint[1])[1]

PlatformHints == {<<PLATFORM_TIKTOK>>, <<PLATFORM_YOUTUBE>>, <<PLATFORM_INSTAGRAM>>}

\* the primary stage of the call's pipeline failed: the identifier could not
\* be resolved, or the download / post fetch / page fetch raised
Tier1Failure(c) ==
    \/ "shortcode" \in c.failed
    \/ "post" \in c.failed
    \/ "fetch" \in c.failed
    \/ c.scraper \in VideoScrapers /\ "download" \in c.failed

\* a stage after the primary one failed: audio extraction, transcription,
\* or the Instagram video download
Tier2Failure(c) ==
    \/ "extract" \in c.failed
    \/ "transcribe" \in c.failed
    \/ c.scraper = InstagramScraper /\ "download" \in c.failed

\* C1: for every URL and every hint, the scraper get_scraper selected for a
\* call is one of the four registered scrapers and its can_handle accepts
\* the call's URL; so a URL that a platform scraper's predicate rejects is
\* only ever given to WebScraper, and dispatch always yields a scraper.
C1_DispatchedScraperCanHandle ==
    \A w \in Workers :
        InFlight(w) =>
            /\ calls[w].scraper \in Scrapers
            /\ can_handle(calls[w].scraper, calls[w].url)
            /\ \A s \in Scrapers \ {WebScraper} :
                  ~can_handle(s, calls[w].url) => calls[w].scraper # s

\* a TikTok hint for a plain web URL was dispatched to WebScraper
C1_Witness ==
    \E w \in Workers :
        /\ InFlight(w)
        /\ calls[w].hint = <<PLATFORM_TIKTOK>>
        /\ calls[w].url = UrlWeb
        /\ calls[w].scraper = WebScraper

\* C2: with a hint naming TikTok, YouTube or Instagram the selected scraper
\* is the hinted scraper when its can_handle accepts the URL and WebScraper
\* when it does not (never the scraper of the platform the URL belongs to).
C2_HintIsRevalidated ==
    \A w \in Workers :
        (InFlight(w) /\ calls[w].hint \in PlatformHints) =>
            calls[w].scraper =
                IF can_handle(HintedScraper(calls[w].hint), calls[w].url)
                THEN HintedScraper(calls[w].hint) ELSE WebScraper

\* an Instagram hint for a YouTube URL fell back to WebScraper
C2_Witness ==
    \E w \in Workers :
        /\ InFlight(w)
        /\ calls[w].hint = <<PLATFORM_INSTAGRAM>>
        /\ calls[w].url = UrlYouTube
        /\ calls[w].scraper = WebScraper

C4_Tier2FailureDegrades ==
    \A w \in Workers :
        (/\ Returned(w)
         /\ calls[w].scraper \in VideoScrapers \cup {InstagramScraper}
         /\ calls[w].fetched # <<>>
         /\ Tier2Failure(calls[w])) =>
            /\ calls[w].result # <<>>
            /\ ResultOf(w).captions = calls[w].fetched[1].captions
            /\ ResultOf(w).description = calls[w].fetched[1].captions
            /\ ResultOf(w).metadata = calls[w].fetched[1].metadata
            /\ ResultOf(w).transcript = ""
            /\ ResultOf(w).error = <<>>

\* a YouTube call with a caption returned after its transcription failed
C4_Witness ==
    \E w \in Workers :
        /\ Returned(w)
        /\ calls[w].scraper = YouTubeScraper
        /\ "transcribe" \in calls[w].failed
        /\ calls[w].result # <<>>
        /\ ResultOf(w).captions = CaptionYum

\* C5: every result a scraper has built that carries an error has empty
\* captions, description and transcript and empty metadata.
C5_ErrorExcludesContent ==
    \A w \in Workers :
        (calls[w].result # <<>> /\ ErrorPopulated(ResultOf(w).error)) =>
            /\ ResultOf(w).captions = <<>>
            /\ ResultOf(w).description = <<>>
            /\ ResultOf(w).transcript = ""
            /\ ResultOf(w).metadata = EmptyDict

\* a WebScraper call whose page fetch failed returned a result with an error
C5_Witness ==
    \E w \in Workers :
        /\ Returned(w)
        /\ calls[w].scraper = WebScraper
        /\ "fetch" \in calls[w].failed
        /\ ErrorPopulated(ResultOf(w).error)

\* C6: every result a scraper has built echoes the url argument of its call.
C6_OriginalUrlEchoed ==
    \A w \in Workers :
        calls[w].result # <<>> => ResultOf(w).original_url = calls[w].url

\* a TikTok call whose download failed returned the upper-case URL unchanged
C6_Witness ==
    \E w \in Workers :
        /\ Returned(w)
        /\ calls[w].scraper = TikTokScraper
        /\ "download" \in calls[w].failed
        /\ ResultOf(w).original_url = UrlTikTokUpper

StagesRun(c) == {c.stages[i] : i \in 1..Len(c.stages)}

\* the paths the call's locals name at the end of scrape
TrackedPaths(c) ==
    {c.video_path[i] : i \in DOMAIN c.video_path} \cup
    {c.audio_path[i] : i \in DOMAIN c.audio_path}

\* C8: when a TikTok or YouTube call has returned on one of the exit paths
\* the claim lists (success, transcribe = false, download failure,
\* audio-extraction failure, transcription failure; no unlink failed), no
\* file written by that call is left in output_dir.
C8_NoFileOfTheCallRemains ==
    \A w \in Workers :
        (/\ Returned(w)
         /\ calls[w].scraper \in VideoScrapers
         /\ calls[w].undeleted = {}) =>
            calls[w].written \cap fs = {}

C10_NoVideoStagesWithoutTranscribe ==
    \A w \in Workers :
        (calls[w].scraper = InstagramScraper /\ ~calls[w].transcribe) =>
            StagesRun(calls[w]) \cap {"download", "extract", "transcribe"} = {}

(* ------------------------- overlapping requests ----------------------- *)
\* server.py 35-39: a ThreadPoolExecutor runs the requests on worker
\* threads, so scrape calls overlap.  The overlapping requests are for the
\* same video address, each with transcription requested.
ConcurrentUrls == {UrlYouTuBe}

ScrapeConcurrently(w) ==
    \E url \in ConcurrentUrls : Dispatch(w, url, <<>>, TRUE)

NextConcurrent ==
    \E w \in Workers :
        \/ ScrapeConcurrently(w) /\ ScrapeOnly
        \/ Download(w) /\ ScrapeOnly
        \/ ExtractAudio(w) /\ ScrapeOnly
        \/ Transcribe(w) /\ ScrapeOnly
        \/ AssembleResult(w) /\ ScrapeOnly
        \/ HandleException(w) /\ ScrapeOnly
        \/ Cleanup(w) /\ ScrapeOnly
        \/ Return(w) /\ ScrapeOnly

SpecConcurrent == Init /\ [][NextConcurrent]_vars

\* C11: calls that overlap in time do not interfere through the temporary
\* files: whenever a call is about to extract audio, the video file it
\* downloaded is still in the output directory, and whenever it is about to
\* transcribe, the audio file it extracted is still there; no other call's
\* cleanup has deleted a file this call still needs.
C11_NoCallLosesItsFiles ==
    \A w \in Workers :
        /\ calls[w].pc = "extract" => calls[w].video_path[1] \in fs
        /\ calls[w].pc = "transcribe" => calls[w].audio_path[1] \in fs

(* --------------------------- URL classification ----------------------- *)
\* detect_platform is applied to addresses put together from fragments; each
\* fragment is recorded with the marker it was written to carry, in some
\* letter case, or "none"
MaxPieces == 3

UrlPieces ==
    {[text |-> <<"t","i","k","t","o","k",".","c","o","m">>,
      marker |-> "tiktok"],
     [text |-> <<"v","m",".","T","i","k","T","o","k",".","C","O","M">>,
      marker |-> "tiktok"],
     [text |-> <<"y","o","u","t","u","b","e",".","c","o","m">>,
      marker |-> "youtube"],
     [text |-> <<"Y","o","u","T","u",".","B","e">>,
      marker |-> "youtube"],
     [text |-> <<"i","n","s","t","a","g","r","a","m",".","c","o","m">>,
      marker |-> "instagram"],
     [text |-> <<"I","N","S","T","A","G","R","A","M",".","c","o","m">>,
      marker |-> "instagram"],
     [text |-> <<"h","t","t","p","s",":","/","/">>,
      marker |-> "none"],
     [text |-> <<"/","w","a","t","c","h","?","v","=">>,
      marker |-> "none"],
     [text |-> <<"t","i","k","t","o","k","-","c","o","m","/">>,
      marker |-> "none"]}

PieceSeqs == UNION {[1..n -> UrlPieces] : n \in 1..MaxPieces}

RECURSIVE ConcatText(_)
ConcatText(ps) ==
    IF ps = <<>> THEN <<>> ELSE Head(ps).text \o ConcatText(Tail(ps))

\* an address to classify
InitClassify ==
    /\ calls = [w \in Workers |-> IdleCall]
    /\ fs = {}
    /\ transcriber = NoTranscriber
    /\ \E ps \in PieceSeqs :
          fn = [NoFn EXCEPT !.op = "url", !.arg = ConcatText(ps),
                            !.parts = [i \in DOMAIN ps |-> ps[i].marker]]

\* detect_platform(url)
DetectPlatform ==
    /\ fn.op = "url"
    /\ fn' = [fn EXCEPT !.op = "detect_platform", !.res = <<detect_platform(fn.arg)>>]
    /\ UNCHANGED <<calls, fs, transcriber>>

NextClassify == DetectPlatform

SpecClassify == InitClassify /\ [][NextClassify]_vars

Classified == fn.op = "detect_platform"

\* the address classified last carries the marker `marker` in some fragment
Carries(marker) == \E i \in DOMAIN fn.parts : fn.parts[i] = marker

\* the platforms whose marker the address classified last carries, with the
\* fallback platform, which every address matches
Candidates ==
    {PLATFORM_WEB}
       \cup (IF Carries("tiktok") THEN {PLATFORM_TIKTOK} ELSE {})
       \cup (IF Carries("youtube") THEN {PLATFORM_YOUTUBE} ELSE {})
       \cup (IF Carries("instagram") THEN {PLATFORM_INSTAGRAM} ELSE {})

\* C12: detect_platform is total and never answers UNKNOWN: for every address
\* it answers one of TIKTOK, YOUTUBE, INSTAGRAM, WEB, namely the platform that
\* comes first in the order TIKTOK, YOUTUBE, INSTAGRAM, WEB among those whose
\* marker the address carries in any letter case (WEB matching everything).
C12_FirstMarkerInPriorityOrderWins ==
    Classified =>
        /\ fn.res # <<>>
        /\ fn.res[1] \in Platform \ {PLATFORM_UNKNOWN}
        /\ fn.res[1] \in Candidates
        /\ \A p \in Candidates : fn.res[1] <= p

\* an address that carries the long-video marker before the short-video
\* marker (written in capitals) is classified as short video
C12_Witness ==
    /\ Classified
    /\ Len(fn.parts) >= 2
    /\ fn.parts[1] = "youtube"
    /\ fn.parts[2] = "tiktok"
    /\ fn.arg # Lower(fn.arg)
    /\ fn.res = <<PLATFORM_TIKTOK>>

\* C13 as stated: every address carrying the short-video marker is TIKTOK,
\* every address carrying a long-video marker is YOUTUBE, every address
\* carrying the social-post marker is INSTAGRAM, and an address with none of
\* them is WEB.
C13_EveryMarkerDecides ==
    Classified =>
        /\ Carries("tiktok") => fn.res = <<PLATFORM_TIKTOK>>
        /\ Carries("youtube") => fn.res = <<PLATFORM_YOUTUBE>>
        /\ Carries("instagram") => fn.res = <<PLATFORM_INSTAGRAM>>
        /\ Candidates = {PLATFORM_WEB} => fn.res = <<PLATFORM_WEB>>

\* C13 (amended): every address carrying the short-video marker in any letter
\* case is TIKTOK; every address carrying a long-video marker and no
\* short-video marker is YOUTUBE; every address carrying the social-post
\* marker and neither of the others is INSTAGRAM; an address with none of the
\* markers is WEB.
C13_MarkerDecidesUnlessOutranked ==
    Classified =>
        /\ Carries("tiktok") => fn.res = <<PLATFORM_TIKTOK>>
        /\ Carries("youtube") /\ ~Carries("tiktok") => fn.res = <<PLATFORM_YOUTUBE>>
        /\ Carries("instagram") /\ ~Carries("tiktok") /\ ~Carries("youtube")
              => fn.res = <<PLATFORM_INSTAGRAM>>
        /\ ~Carries("tiktok") /\ ~Carries("youtube") /\ ~Carries("instagram")
              => fn.res = <<PLATFORM_WEB>>

\* an address whose only marker is the social-post marker, written with
\* capital letters, is classified as social post
C13_Witness ==
    /\ Classified
    /\ Carries("instagram")
    /\ ~Carries("tiktok")
    /\ ~Carries("youtube")
    /\ fn.arg # Lower(fn.arg)
    /\ fn.res = <<PLATFORM_INSTAGRAM>>

(* --------------------- the web pipeline and its flag ------------------ *)
\* requests for a web page, with and without the transcribe flag, served
\* side by side so that their results can be compared
ScrapeWeb(w) ==
    \E transcribe \in BOOLEAN : Dispatch(w, UrlWeb, <<>>, transcribe)

NextWeb ==
    \E w \in Workers :
        \/ ScrapeWeb(w) /\ ScrapeOnly
        \/ FetchPage(w) /\ ScrapeOnly
        \/ HandleException(w) /\ ScrapeOnly
        \/ Return(w) /\ ScrapeOnly

SpecWeb == Init /\ [][NextWeb]_vars

\* the two calls got the same answers from the page fetch
SameFetch(v, w) ==
    /\ calls[v].url = calls[w].url
    /\ calls[v].fetched = calls[w].fetched
    /\ ("fetch" \in calls[v].failed) = ("fetch" \in calls[w].failed)

\* C14: the web pipeline ignores the transcribe flag: two web scrapes of the
\* same URL that were served the same page (or the same fetch failure) return
\* identical results whatever their flags; the transcript of a web result is
\* always empty; and no web call runs a download, audio-extraction or
\* transcription stage.
C14_WebIgnoresTranscribe ==
    \A v, w \in Workers :
        (Returned(v) /\ calls[v].scraper = WebScraper) =>
            /\ calls[v].result # <<>>
            /\ ResultOf(v).transcript = ""
            /\ \A i \in DOMAIN calls[v].stages : calls[v].stages[i] = "fetch"
            /\ calls[v].video_path = <<>> /\ calls[v].audio_path = <<>>
            /\ (Returned(w) /\ calls[w].scraper = WebScraper /\ SameFetch(v, w))
                  => calls[v].result = calls[w].result

\* two web scrapes of the same page have returned, one with the flag set and
\* one without, both with the recipe text as content
C14_Witness ==
    \E v, w \in Workers :
        /\ Returned(v) /\ Returned(w)
        /\ calls[v].scraper = WebScraper /\ calls[w].scraper = WebScraper
        /\ calls[v].transcribe /\ ~calls[w].transcribe
        /\ SameFetch(v, w)
        /\ calls[v].fetched # <<>>
        /\ ResultOf(v).captions # <<>>
        /\ ResultOf(v).error = <<>>
        /\ ResultOf(v) = ResultOf(w)

\* the page served to the call has a structured-data block of kind `kind`
HasBlock(c, kind) ==
    \E i \in DOMAIN c.fetched[1].blocks : c.fetched[1].blocks[i] = kind

\* C15: once the page fetch succeeded, a structured-data block that cannot be
\* parsed or is not a recipe never makes the web scrape return an error: the
\* block is skipped, and when no block of the page is a recipe the result's
\* content is the whole-page text.
C15_BadBlockNeverFailsScrape ==
    \A w \in Workers :
        (Returned(w) /\ calls[w].scraper = WebScraper /\ calls[w].fetched # <<>>) =>
            /\ calls[w].result # <<>>
            /\ ~ErrorPopulated(ResultOf(w).error)
            /\ ~HasBlock(calls[w], "recipe")
                  => ResultOf(w).captions = calls[w].fetched[1].text

(* ------------------------- shortcode extraction ----------------------- *)
\* Instagram addresses put together from path segments: scheme and host,
\* then up to MaxSegments further segments; an empty last segment is a
\* trailing slash
MaxSegments == 3

SegP == <<"p">>
SegReel == <<"r","e","e","l">>
PathSegments == {SegP, SegReel, <<"A","b","1">>, <<"c","h","e","f">>, <<>>}

HostSegments == <<<<"h","t","t","p","s",":">>, <<>>, <<"w","w","w",".","i","n","s","t","a","g","r","a","m",".","c","o","m">>>>

SegmentSeqs ==
    {HostSegments \o tail : tail \in UNION {[1..n -> PathSegments] : n \in 0..MaxSegments}}

\* '/'.join(segments)
RECURSIVE JoinSlash(_)
JoinSlash(segs) ==
    IF Len(segs) = 1 THEN segs[1]
    ELSE Head(segs) \o <<"/">> \o JoinSlash(Tail(segs))

\* an address to scrape
InitShortcode ==
    /\ calls = [w \in Workers |-> IdleCall]
    /\ fs = {}
    /\ transcriber = NoTranscriber
    /\ \E segs \in SegmentSeqs :
          fn = [NoFn EXCEPT !.op = "url", !.arg = JoinSlash(segs), !.parts = segs]

\* scrape(url, transcribe=False) of the address; the identifier the call
\* works with is _extract_shortcode(url)
ScrapeSegments(w) ==
    /\ fn.op = "url"
    /\ Dispatch(w, fn.arg, <<>>, FALSE)
    /\ fn' = [fn EXCEPT !.op = "_extract_shortcode",
                        !.res = <<_extract_shortcode(fn.arg)>>]
    /\ UNCHANGED transcriber

NextShortcode ==
    \E w \in Workers :
        \/ ScrapeSegments(w)
        \/ FetchPost(w) /\ ScrapeOnly
        \/ DownloadPost(w) /\ ScrapeOnly
        \/ AssembleResult(w) /\ ScrapeOnly
        \/ HandleException(w) /\ ScrapeOnly
        \/ Cleanup(w) /\ ScrapeOnly
        \/ Return(w) /\ ScrapeOnly

SpecShortcode == InitShortcode /\ [][NextShortcode]_vars

\* the positions of the '/p/' and '/reel/' segments of the address
MarkerSegments == {i \in DOMAIN fn.parts : fn.parts[i] \in {SegP, SegReel}}

\* the segment right after position i; empty when there is none
SegmentAfter(i) == IF i + 1 <= Len(fn.parts) THEN fn.parts[i + 1] ELSE <<>>

\* C16: the identifier extracted from an address is a segment that comes
\* right after a '/p/' or '/reel/' segment (the one after the marker segment
\* when the address has exactly one); an address with neither segment yields
\* the empty identifier; and with an empty identifier the scrape fails as a
\* Tier-1 failure (error set, content empty) without a post-metadata request,
\* while with a non-empty one the post is requested under that identifier.
C16_ShortcodeFollowsMarkerSegment ==
    fn.op = "_extract_shortcode" =>
        LET shortcode == fn.res[1] IN
        /\ shortcode # <<>> => \E i \in MarkerSegments : shortcode = SegmentAfter(i)
        /\ Cardinality(MarkerSegments) = 1 =>
               \A i \in MarkerSegments : shortcode = SegmentAfter(i)
        /\ MarkerSegments = {} => shortcode = <<>>
        /\ \A w \in Workers :
              InFlight(w) =>
                 /\ calls[w].scraper = InstagramScraper
                 /\ shortcode = <<>> =>
                       /\ \A k \in DOMAIN calls[w].stages : calls[w].stages[k] # "post"
                       /\ Returned(w) =>
                             /\ calls[w].result # <<>>
                             /\ ErrorPopulated(ResultOf(w).error)
                             /\ ResultOf(w).captions = <<>>
                             /\ ResultOf(w).transcript = ""
                 /\ calls[w].pc = "download" =>
                       calls[w].video_path = <<shortcode \o ExtMp4>>

\* the address '.../reel/Ab1/' gave the identifier 'Ab1', and the post was
\* requested under it
C16_Witness ==
    /\ fn.op = "_extract_shortcode"
    /\ fn.parts = HostSegments \o <<SegReel, <<"A","b","1">>, <<>> >>
    /\ fn.res = << <<"A","b","1">> >>
    /\ \E w \in Workers :
          /\ calls[w].pc = "download"
          /\ calls[w].stages = <<"post">>

\* an address with neither segment was scraped: the call returned an error
\* without a post-metadata request
C16_EmptyShortcodeReturned ==
    /\ fn.op = "_extract_shortcode"
    /\ MarkerSegments = {}
    /\ \E w \in Workers : Returned(w) /\ ErrorPopulated(ResultOf(w).error)

(* ------------------------- language conversion ------------------------ *)
\* str.strip() for the whitespace a language hint can carry
Whitespace == {" "}

RECURSIVE LStrip(_)
LStrip(s) == IF s # <<>> /\ Head(s) \in Whitespace THEN LStrip(Tail(s)) ELSE s

RECURSIVE RStrip(_)
RStrip(s) ==
    IF s # <<>> /\ s[Len(s)] \in Whitespace THEN RStrip(SubSeq(s, 1, Len(s) - 1)) ELSE s

Strip(s) == RStrip(LStrip(s))

\* Transcriber._convert_to_elevenlabs_language: the language_map literal
language_map ==
    {<<<<"e","n">>, <<"e","n","g">>>>,
     <<<<"e","n","-","U","S">>, <<"e","n","g">>>>,
     <<<<"e","n","-","G","B">>, <<"e","n","g">>>>,
     <<<<"e","s">>, <<"s","p","a">>>>,
     <<<<"e","s","-","E","S">>, <<"s","p","a">>>>,
     <<<<"e","s","-","M","X">>, <<"s","p","a">>>>,
     <<<<"p","t">>, <<"p","o","r">>>>,
     <<<<"p","t","-","B","R">>, <<"p","o","r">>>>,
     <<<<"p","t","-","P","T">>, <<"p","o","r">>>>,
     <<<<"f","r">>, <<"f","r","a">>>>,
     <<<<"f","r","-","F","R">>, <<"f","r","a">>>>,
     <<<<"d","e">>, <<"d","e","u">>>>,
     <<<<"d","e","-","D","E">>, <<"d","e","u">>>>,
     <<<<"i","t">>, <<"i","t","a">>>>,
     <<<<"i","t","-","I","T">>, <<"i","t","a">>>>,
     <<<<"j","a">>, <<"j","p","n">>>>,
     <<<<"j","a","-","J","P">>, <<"j","p","n">>>>,
     <<<<"k","o">>, <<"k","o","r">>>>,
     <<<<"k","o","-","K","R">>, <<"k","o","r">>>>,
     <<<<"z","h">>, <<"c","m","n">>>>,
     <<<<"z","h","-","C","N">>, <<"c","m","n">>>>,
     <<<<"z","h","-","T","W">>, <<"c","m","n">>>>}

\* a conversion that normalises the letter case of an unlisted code
_convert_to_elevenlabs_language_lowercasing(language) ==
    IF language = <<>> \/ language[1] = <<>> \/ Strip(language[1]) = <<>>
    THEN <<>>
    ELSE <<DictGet(language_map, language[1], Lower(language[1]))>>

\* Transcriber._convert_to_elevenlabs_language(language); None is <<>>
_convert_to_elevenlabs_language(language) ==
    IF language = <<>> \/ language[1] = <<>> \/ Strip(language[1]) = <<>>
    THEN <<>>
    ELSE <<DictGet(language_map, language[1], language[1])>>

\* the language hints tried: absent, empty and blank hints, the listed
\* codes, the native codes, and codes that are not listed
NativeCodes == {kv[2] : kv \in language_map}
UnlistedCodes ==
    {<<"x","x">>,
     <<"E","N">>,
     <<"e","n","-","u","s">>,
     <<"n","l">>,
     <<"r","u">>,
     <<"e","n","g"," ">>,
     <<" ","e","n">>,
     <<"e">>,
     <<"e","n","g","l","i","s","h">>,
     <<"e","n","_","U","S">>,
     <<"p","t","-","b","r">>,
     <<"z","z","-","Z","Z">>,
     <<"a","u","t","o">>,
     <<"e","s","-","A","R">>}
BlankHints == {<<>>, <<" ">>, <<" "," ">>}
LanguageHints ==
    {<<>>} \cup {<<code>> : code \in {kv[1] : kv \in language_map} \cup NativeCodes
                                      \cup UnlistedCodes \cup BlankHints}

\* a language hint to convert
InitLanguage ==
    /\ calls = [w \in Workers |-> IdleCall]
    /\ fs = {}
    /\ transcriber = NoTranscriber
    /\ \E language \in LanguageHints :
          fn = [NoFn EXCEPT !.op = "language", !.arg = language]

\* _convert_to_elevenlabs_language(language)
ConvertLanguage ==
    /\ fn.op = "language"
    /\ fn' = [fn EXCEPT !.op = "_convert_to_elevenlabs_language",
                        !.res = _convert_to_elevenlabs_language(fn.arg)]
    /\ UNCHANGED <<calls, fs, transcriber>>

\* the conversion applied to its own value; parts keeps the first argument
ConvertAgain ==
    /\ fn.op = "_convert_to_elevenlabs_language"
    /\ ~fn.again
    /\ fn.res # <<>>
    /\ fn' = [fn EXCEPT !.arg = fn.res, !.parts = fn.arg,
                        !.res = _convert_to_elevenlabs_language(fn.res),
                        !.again = TRUE]
    /\ UNCHANGED <<calls, fs, transcriber>>

NextLanguage ==
    \/ ConvertLanguage
    \/ ConvertAgain

SpecLanguage == InitLanguage /\ [][NextLanguage]_vars

\* the languages of the conversion table: two-letter code, the regions it is
\* also listed with, and the native three-letter code
LanguageFamilies ==
    {[code |-> <<"e","n">>, regions |-> {<<"U","S">>, <<"G","B">>}, native |-> <<"e","n","g">>],
     [code |-> <<"e","s">>, regions |-> {<<"E","S">>, <<"M","X">>}, native |-> <<"s","p","a">>],
     [code |-> <<"p","t">>, regions |-> {<<"B","R">>, <<"P","T">>}, native |-> <<"p","o","r">>],
     [code |-> <<"f","r">>, regions |-> {<<"F","R">>}, native |-> <<"f","r","a">>],
     [code |-> <<"d","e">>, regions |-> {<<"D","E">>}, native |-> <<"d","e","u">>],
     [code |-> <<"i","t">>, regions |-> {<<"I","T">>}, native |-> <<"i","t","a">>],
     [code |-> <<"j","a">>, regions |-> {<<"J","P">>}, native |-> <<"j","p","n">>],
     [code |-> <<"k","o">>, regions |-> {<<"K","R">>}, native |-> <<"k","o","r">>],
     [code |-> <<"z","h">>, regions |-> {<<"C","N">>, <<"T","W">>}, native |-> <<"c","m","n">>]}

Spellings(f) == {f.code} \cup {f.code \o <<"-">> \o r : r \in f.regions}

Converted == fn.op = "_convert_to_elevenlabs_language"

\* the hint is a code: present and not made of whitespace only
IsCode(language) ==
    /\ language # <<>>
    /\ \E i \in DOMAIN language[1] : language[1][i] \notin Whitespace

\* C17: the language conversion is idempotent: a code listed in the table
\* (the two-letter code of a language or one of its regional spellings) is
\* converted to the language's native code, every other code (a native code
\* included) is returned unchanged, no code makes the conversion fail or
\* return nothing, and converting a converted code returns it unchanged.
C17_ConversionIsIdempotent ==
    (Converted /\ IsCode(fn.arg)) =>
        /\ fn.res # <<>>
        /\ \A f \in LanguageFamilies :
              fn.arg[1] \in Spellings(f) => fn.res[1] = f.native
        /\ (\A f \in LanguageFamilies : fn.arg[1] \notin Spellings(f))
              => fn.res = fn.arg
        /\ fn.again => fn.res = fn.arg

\* the regional spelling pt-BR was converted to por, and por converted again
\* gave por
C17_Witness ==
    /\ Converted
    /\ fn.again
    /\ fn.parts = <<<<"p","t","-","B","R">>>>
    /\ fn.arg = <<<<"p","o","r">>>>
    /\ fn.res = <<<<"p","o","r">>>>

(* ----------------------------- Transcriber ---------------------------- *)
ProviderElevenLabs == "elevenlabs"
ProviderGoogle == "google-stt"
ProviderWhisper == "whisper"
ProviderNames == {ProviderElevenLabs, ProviderGoogle, ProviderWhisper, "azure", "ElevenLabs"}

ElevenLabsTranscriber == "ElevenLabsTranscriber"
GoogleSTTTranscriber == "GoogleSTTTranscriber"
WhisperTranscriber == "WhisperTranscriber"

\* Python truthiness of an optional string setting (None and "" are falsy)
Given(value) == value # <<>> /\ value[1] # ""

\* kwargs.get(name, default): <<>> stands for a keyword that was not passed
KwargsGet(value, default) == IF value = <<>> THEN default ELSE value

Constructed == [raised |-> FALSE, msg |-> ""]
Raising(msg) == [raised |-> TRUE, msg |-> msg]

\* an ElevenLabs backend that accepts a missing key
ElevenLabsTranscriber_init_unchecked(api_key, env_key) ==
    Constructed

\* ElevenLabsTranscriber.__init__(api_key), with ELEVENLABS_API_KEY = env_key
ElevenLabsTranscriber_init(api_key, env_key) ==
    LET key == IF Given(api_key) THEN api_key ELSE env_key
    IN  IF ~Given(key) THEN Raising("ElevenLabs API key not found")
        ELSE Constructed

\* GoogleSTTTranscriber.__init__(credentials_path): the path, when given, is
\* exported as GOOGLE_APPLICATION_CREDENTIALS, and speech.SpeechClient()
\* resolves the credentials; it raises when there is neither a path nor
\* ambient application-default credentials
GoogleSTTTranscriber_init(credentials_path, ambient) ==
    IF Given(credentials_path) \/ ambient THEN Constructed
    ELSE Raising("Your default credentials were not found")

\* WhisperTranscriber.__init__(model_name, use_api, api_key)
WhisperTranscriber_init(use_api, api_key) ==
    IF use_api /\ ~Given(api_key) THEN Raising("API key required for Whisper API")
    ELSE Constructed

\* what a constructor call is given: the provider name, the keyword
\* arguments and the environment of the process
Settings == {<<>>, <<"">>, <<"k">>}
ConstructorArgs ==
    {[provider |-> ProviderElevenLabs, api_key |-> a, env_key |-> e,
      credentials_path |-> <<>>, ambient |-> FALSE, use_api |-> FALSE] :
        a \in Settings, e \in Settings}
    \cup {[provider |-> ProviderGoogle, api_key |-> <<>>, env_key |-> <<>>,
           credentials_path |-> p, ambient |-> g, use_api |-> FALSE] :
        p \in Settings, g \in BOOLEAN}
    \cup {[provider |-> ProviderWhisper, api_key |-> a, env_key |-> e,
           credentials_path |-> <<>>, ambient |-> FALSE, use_api |-> u] :
        a \in Settings, e \in {<<>>, <<"k">>}, u \in BOOLEAN}
    \cup {[provider |-> name, api_key |-> <<>>, env_key |-> <<"k">>,
           credentials_path |-> <<>>, ambient |-> TRUE, use_api |-> FALSE] :
        name \in ProviderNames \ {ProviderElevenLabs, ProviderGoogle, ProviderWhisper}}

\* the object a constructor call leaves behind: ready with its backend, or
\* no object and the error the constructor raised
Built(args, backend, outcome) ==
    [state |-> IF outcome.raised THEN "failed" ELSE "ready",
     provider |-> args.provider,
     backend |-> IF outcome.raised THEN <<>> ELSE <<backend>>,
     use_api |-> args.use_api,
     config |-> IF outcome.raised THEN <<outcome.msg>> ELSE <<>>,
     args |-> <<args>>,
     last |-> <<>>]

\* Transcriber.__init__(provider, **kwargs)
Transcriber_init(args) ==
    IF args.provider = ProviderElevenLabs
    THEN Built(args, ElevenLabsTranscriber,
               ElevenLabsTranscriber_init(KwargsGet(args.api_key, args.env_key),
                                          args.env_key))
    ELSE IF args.provider = ProviderGoogle
    THEN Built(args, GoogleSTTTranscriber,
               GoogleSTTTranscriber_init(args.credentials_path, args.ambient))
    ELSE IF args.provider = ProviderWhisper
    THEN Built(args, WhisperTranscriber,
               WhisperTranscriber_init(args.use_api,
                                       KwargsGet(args.api_key, args.env_key)))
    ELSE Built(args, "", Raising("Unknown transcription provider"))

CreateTranscriber ==
    /\ transcriber.state = "absent"
    /\ \E args \in ConstructorArgs : transcriber' = Transcriber_init(args)
    /\ UNCHANGED <<calls, fs, fn>>

\* an ElevenLabs request that falls back to English
ElevenLabsRequestLanguage_defaulting(language_code) ==
    IF language_code # <<>> /\ language_code[1] # <<>> /\ Strip(language_code[1]) # <<>>
    THEN language_code
    ELSE <<<<"e","n","g">>>>

\* ElevenLabsTranscriber.transcribe lines 76-77: language_code is put into
\* the request only when it is non-empty after strip(); <<>> is a request
\* without a language, which the service answers by detecting it
ElevenLabsRequestLanguage(language_code) ==
    IF language_code # <<>> /\ language_code[1] # <<>> /\ Strip(language_code[1]) # <<>>
    THEN language_code
    ELSE <<>>

\* `language or "en-US"` and RecognitionConfig(language_code=...)
DefaultLocale == <<"e","n","-","U","S">>
GoogleRequestLanguage(language) ==
    IF language # <<>> /\ language[1] # <<>> THEN language ELSE <<DefaultLocale>>

\* WhisperTranscriber.transcribe: the API path sends no language, the local
\* path sets options['language'] only for a non-empty language
WhisperRequestLanguage(use_api, language) ==
    IF use_api THEN <<>>
    ELSE IF language # <<>> /\ language[1] # <<>> THEN language ELSE <<>>

\* the language the backend is asked to use for a call with hint `language`
RequestLanguage(t, language) ==
    IF t.provider = ProviderElevenLabs
    THEN ElevenLabsRequestLanguage(_convert_to_elevenlabs_language(language))
    ELSE IF t.provider = ProviderGoogle
    THEN GoogleRequestLanguage(language)
    ELSE WhisperRequestLanguage(t.use_api, language)

\* what the backend's transcribe does: returns a text or raises
BackendOutcomes ==
    {[raised |-> FALSE, text |-> <<text>>] : text \in Transcripts}
       \cup {[raised |-> TRUE, text |-> <<>>]}

\* a wrapper that logs the failure and returns an empty text
Reraise_swallowing(outcome) ==
    IF outcome.raised THEN [raised |-> FALSE, text |-> <<"">>] ELSE outcome

\* Transcriber.transcribe lines 67-80: the backend's value is returned, and
\* `except Exception` logs and re-raises
Reraise(outcome) == outcome

\* Transcriber.transcribe(audio_path, language)
Transcriber_transcribe(t, language, outcome) ==
    [language |-> language,
     backend |-> t.backend[1],
     request_language |-> RequestLanguage(t, language),
     backend_raised |-> outcome.raised,
     raised |-> Reraise(outcome).raised,
     text |-> Reraise(outcome).text]

TranscribeCall ==
    /\ transcriber.state = "ready"
    /\ \E language \in LanguageHints, outcome \in BackendOutcomes :
          transcriber' = [transcriber EXCEPT
                             !.last = <<Transcriber_transcribe(transcriber, language, outcome)>>]
    /\ UNCHANGED <<calls, fs, fn>>

NextTranscriber ==
    \/ CreateTranscriber
    \/ TranscribeCall

SpecTranscriber == Init /\ [][NextTranscriber]_vars

\* the last transcribe call, when there was one
Called == transcriber.last # <<>>
LastCall == transcriber.last[1]

\* the hint of the last call was absent or the empty string
NoHint == LastCall.language \in {<<>>, << <<>> >>}

\* C18 as stated: for every provider, a call with an empty or absent language
\* hint sends the backend no language code, so that it detects the language.
C18_NoHintMeansAutoDetect ==
    (Called /\ NoHint) => LastCall.request_language = <<>>

\* C18 (amended): with the elevenlabs and whisper providers a call with an
\* empty or absent language hint sends the backend no language code, so that
\* it detects the language; with the google-stt provider such a call sends
\* the fixed locale en-US.
C18_NoHintAutoDetectsExceptGoogle ==
    (Called /\ NoHint) =>
        /\ transcriber.provider \in {ProviderElevenLabs, ProviderWhisper}
              => LastCall.request_language = <<>>
        /\ transcriber.provider = ProviderGoogle
              => LastCall.request_language = <<DefaultLocale>>

\* the elevenlabs provider was called with the empty hint and its backend
\* answered with a text, having been sent no language code
C18_Witness ==
    /\ Called
    /\ transcriber.provider = ProviderElevenLabs
    /\ LastCall.language = << <<>> >>
    /\ LastCall.request_language = <<>>
    /\ ~LastCall.raised
    /\ LastCall.text = <<"mix and bake">>

\* the backend class registered under a provider name
BackendOf(provider) ==
    CASE provider = ProviderElevenLabs -> ElevenLabsTranscriber
      [] provider = ProviderGoogle -> GoogleSTTTranscriber
      [] provider = ProviderWhisper -> WhisperTranscriber

\* the credential the named backend needs was not supplied: no API key by
\* keyword or environment (elevenlabs; whisper in API mode), no credentials
\* file and no ambient credentials (google-stt).  Local whisper needs none.
CredentialMissing(a) ==
    \/ /\ a.provider = ProviderElevenLabs
       /\ ~Given(a.api_key) /\ ~Given(a.env_key)
    \/ /\ a.provider = ProviderGoogle
       /\ ~Given(a.credentials_path) /\ ~a.ambient
    \/ /\ a.provider = ProviderWhisper
       /\ a.use_api
       /\ IF a.api_key = <<>> THEN ~Given(a.env_key) ELSE ~Given(a.api_key)

\* C19: constructing a Transcriber fails with a configuration error, before
\* any transcribe call, when the provider name is not one of elevenlabs,
\* google-stt, whisper or when the credential the named backend requires is
\* missing; otherwise the backend of that name, and only it, is selected and
\* every later transcribe call is served by it.
C19_ConstructionSelectsOrFails ==
    transcriber.state # "absent" =>
        LET a == transcriber.args[1]
            known == a.provider \in {ProviderElevenLabs, ProviderGoogle, ProviderWhisper}
        IN  IF ~known \/ CredentialMissing(a)
            THEN /\ transcriber.state = "failed"
                 /\ transcriber.config # <<>>
                 /\ transcriber.backend = <<>>
                 /\ ~Called
            ELSE /\ transcriber.state = "ready"
                 /\ transcriber.config = <<>>
                 /\ transcriber.backend = <<BackendOf(a.provider)>>
                 /\ Called => LastCall.backend = BackendOf(a.provider)

\* the elevenlabs provider was named with no API key in the keywords or the
\* environment: construction failed and no call was made
C19_Witness ==
    /\ transcriber.state = "failed"
    /\ transcriber.provider = ProviderElevenLabs
    /\ transcriber.args[1].api_key = <<>>
    /\ transcriber.args[1].env_key = <<>>
    /\ transcriber.config = <<"ElevenLabs API key not found">>
    /\ ~Called

\* C20: Transcriber.transcribe never swallows a backend failure: whenever the
\* backend's transcribe raised, the call raised too and returned no text, and
\* whenever the backend returned a text, the call returned that text.
C20_BackendFailurePropagates ==
    Called =>
        /\ LastCall.backend_raised => (LastCall.raised /\ LastCall.text = <<>>)
        /\ ~LastCall.backend_raised => (~LastCall.raised /\ LastCall.text # <<>>)

\* a backend failure reached the caller of Transcriber.transcribe
C20_Witness ==
    /\ Called
    /\ LastCall.backend_raised
    /\ LastCall.raised

(* --------------------------- ScrapeContent ---------------------------- *)
\* ScraperServicer._convert_platform: mapping.get(proto_platform, UNKNOWN)
ProtoPlatforms == 0..5

_convert_platform(proto_platform) ==
    IF proto_platform \in {PLATFORM_UNKNOWN, PLATFORM_TIKTOK, PLATFORM_YOUTUBE,
                           PLATFORM_INSTAGRAM, PLATFORM_WEB}
    THEN proto_platform
    ELSE PLATFORM_UNKNOWN

\* scraper_pb2.Error and scraper_pb2.ScrapeResponse: the response message
\* with string fields, a string-to-string metadata map and an optional error
Error(message, code) == [message |-> message, code |-> code]

ScrapeResponse(captions, transcript, original_url, metadata, error) ==
    [captions |-> captions, transcript |-> transcript,
     original_url |-> original_url, metadata |-> metadata, error |-> error]

MapTypeError == "bad argument type for built-in operation"

\* servicers.py 56-68: the response built from the scrape result; the
\* message constructor raises TypeError for a metadata value that is not a
\* string
BuildResponse(result) ==
    IF \E kv \in result.metadata : kv[1] = "title" /\ kv[2] = NoneValue
    THEN [raised |-> TRUE, msg |-> MapTypeError, value |-> <<>>]
    ELSE [raised |-> FALSE, msg |-> "",
          value |-> <<ScrapeResponse(result.captions, result.transcript,
                         result.original_url, result.metadata,
                         IF ErrorPopulated(result.error)
                         THEN <<Error(result.error[1], "SCRAPING_ERROR")>>
                         ELSE <<>>)>>]

\* a handler that logs the exception and lets it leave ScrapeContent
InternalErrorResponse_propagating(url, e) == <<>>

\* servicers.py 70-82: the response of the `except Exception as e` block
InternalErrorResponse(url, e) ==
    <<ScrapeResponse(<<>>, "", url, EmptyDict, <<Error(e, "INTERNAL_ERROR")>>)>>

CleanupError == "unlink failed"

\* a ScrapeContent request: hint conversion and dispatch (servicers.py 44-53)
ScrapeContent(w) ==
    \E url \in Urls, proto_platform \in ProtoPlatforms, transcribe \in BOOLEAN :
        Dispatch(w, url, <<_convert_platform(proto_platform)>>, transcribe)

\* scrape has returned or raised: servicers.py 55-82
Respond(w) ==
    LET c == calls[w] IN
    /\ c.pc = "returned"
    /\ ~c.replied
    /\ calls' = [calls EXCEPT ![w] =
          [c EXCEPT !.replied = TRUE,
                    !.response =
                       IF c.raised THEN InternalErrorResponse(c.url, CleanupError)
                       ELSE LET built == BuildResponse(c.result[1])
                            IN  IF built.raised
                                THEN InternalErrorResponse(c.url, built.msg)
                                ELSE built.value]]
    /\ UNCHANGED fs

\* the response is sent; the worker thread is free again
Reply(w) ==
    /\ calls[w].pc = "returned"
    /\ calls[w].replied
    /\ calls' = [calls EXCEPT ![w] = IdleCall]
    /\ UNCHANGED fs

NextServicer ==
    \E w \in Workers :
        \/ NoCallInFlight /\ ScrapeContent(w) /\ ScrapeOnly
        \/ Download(w) /\ ScrapeOnly
        \/ ExtractAudio(w) /\ ScrapeOnly
        \/ Transcribe(w) /\ ScrapeOnly
        \/ FetchPost(w) /\ ScrapeOnly
        \/ DownloadPost(w) /\ ScrapeOnly
        \/ FetchPage(w) /\ ScrapeOnly
        \/ AssembleResult(w) /\ ScrapeOnly
        \/ HandleException(w) /\ ScrapeOnly
        \/ Cleanup(w) /\ ScrapeOnly
        \/ Respond(w) /\ ScrapeOnly
        \/ Reply(w) /\ ScrapeOnly

SpecServicer == Init /\ [][NextServicer]_vars

Responded(w) == calls[w].pc = "returned" /\ calls[w].replied

\* the response is the all-empty one with the request URL and an error of
\* the given code
IsErrorOnlyResponse(r, url, code) ==
    /\ r.captions = <<>>
    /\ r.transcript = ""
    /\ r.metadata = {}
    /\ r.original_url = url
    /\ r.error # <<>>
    /\ r.error[1].code = code
    /\ r.error[1].message # ""

\* the result holds a metadata value the response's string map cannot take
HasNoneTitle(result) ==
    \E kv \in result.metadata : kv[1] = "title" /\ kv[2] = NoneValue

\* C21: ScrapeContent always answers with a response, never with a fault.
\* When scrape raised or the response could not be built from its result,
\* the response is the all-empty one with original_url the request URL and
\* an error coded INTERNAL_ERROR; when the pipeline result carries an error,
\* the response carries that error message; and when neither happened the
\* response has no error and carries the result's content.
C21_ScrapeContentAlwaysResponds ==
    \A w \in Workers :
        Responded(w) =>
            LET c == calls[w]
                fault == c.raised \/ HasNoneTitle(c.result[1])
            IN  /\ c.response # <<>>
                /\ fault =>
                      IsErrorOnlyResponse(c.response[1], c.url, "INTERNAL_ERROR")
                /\ (~fault /\ ErrorPopulated(ResultOf(w).error)) =>
                      /\ c.response[1].error # <<>>
                      /\ c.response[1].error[1].message = ResultOf(w).error[1]
                      /\ c.response[1].original_url = c.url
                /\ (~fault /\ ~ErrorPopulated(ResultOf(w).error)) =>
                      /\ c.response[1].error = <<>>
                      /\ c.response[1].captions = ResultOf(w).captions
                      /\ c.response[1].transcript = ResultOf(w).transcript
                      /\ c.response[1].original_url = c.url

\* a page without a recipe block and with an empty title element was
\* scraped: the result could not be put into a response, and the caller got
\* the INTERNAL_ERROR response
C21_Witness ==
    \E w \in Workers :
        /\ Responded(w)
        /\ calls[w].scraper = WebScraper
        /\ ~ErrorPopulated(ResultOf(w).error)
        /\ calls[w].response # <<>>
        /\ IsErrorOnlyResponse(calls[w].response[1], calls[w].url, "INTERNAL_ERROR")

(* ---------------------- recipe description synthesis ----------------- *)
\* recipe objects with up to MaxItems ingredients and MaxItems instructions
MaxItems == 2

ListsOf(S) == UNION {[1..n -> S] : n \in 0..MaxItems}

Recipes ==
    {[recipeIngredient |-> ingredients, recipeInstructions |-> instructions] :
        ingredients \in ListsOf({Flour, Sugar}),
        instructions \in ListsOf({StepStir, StepMix, StepBake, StepNamed})}

\* a recipe object found in a structured-data block
InitRecipe ==
    /\ calls = [w \in Workers |-> IdleCall]
    /\ fs = {}
    /\ transcriber = NoTranscriber
    /\ \E data \in Recipes : fn = [NoFn EXCEPT !.op = "recipe", !.parts = data]

\* the description _extract_recipe_schema synthesizes for it
SynthesizeDescription ==
    /\ fn.op = "recipe"
    /\ fn' = [fn EXCEPT !.op = "_extract_recipe_schema",
                        !.res = <<RecipeDescription(fn.parts)>>]
    /\ UNCHANGED <<calls, fs, transcriber>>

NextRecipe == SynthesizeDescription

SpecRecipe == InitRecipe /\ [][NextRecipe]_vars

Synthesized == fn.op = "_extract_recipe_schema"

\* str.split('\n'): the lines of a text
RECURSIVE LinesOf(_)
LinesOf(s) ==
    IF \E i \in 1..Len(s) : s[i] = LF
    THEN LET k == CHOOSE i \in 1..Len(s) : s[i] = LF /\ \A j \in 1..(i - 1) : s[j] # LF
         IN  <<SubSeq(s, 1, k - 1)>> \o LinesOf(SubSeq(s, k + 1, Len(s)))
    ELSE <<s>>

\* the line 'k. text' for the k-th instruction, text being the text field of
\* an object that has one and the string form of the instruction otherwise
NumberedLine(k, instruction) ==
    <<Digits[k + 1], ".", " ">>
       \o (IF instruction.text # <<>> THEN instruction.text[1] ELSE instruction.str)

IngredientSection(data) ==
    <<<<"I","N","G","R","E","D","I","E","N","T","S",":">>>> \o data.recipeIngredient \o << <<>> >>

InstructionSection(data) ==
    <<<<"I","N","S","T","R","U","C","T","I","O","N","S",":">>>>
       \o [k \in 1..Len(data.recipeInstructions) |->
              NumberedLine(k, data.recipeInstructions[k])]

\* every instruction of the recipe is a plain string or an object with a
\* text field
TextsPresent(data) ==
    \A k \in 1..Len(data.recipeInstructions) :
        data.recipeInstructions[k].is_dict => data.recipeInstructions[k].text # <<>>

\* C22 as stated: for every ingredient list and instruction list the
\* description consists of the line INGREDIENTS:, the ingredients, a blank
\* line, the line INSTRUCTIONS: and the numbered instruction texts.
C22_BothSectionsAlways ==
    (Synthesized /\ TextsPresent(fn.parts)) =>
        LinesOf(fn.res[1]) = IngredientSection(fn.parts) \o InstructionSection(fn.parts)

\* C22 (amended): the description is the ingredient section (the line
\* INGREDIENTS:, one line per ingredient in order, a blank line) when the
\* ingredient list is not empty, followed by the instruction section (the
\* line INSTRUCTIONS:, then lines 'k. text_k' numbered from 1) when the
\* instruction list is not empty; a section whose list is empty is left out
\* with its heading; text_k is the text field of an instruction object that
\* has one, and the string form of the instruction otherwise.  For
\* [flour, sugar] and [{text: Mix}, {text: Bake}] it is
\* "INGREDIENTS:\nflour\nsugar\n\nINSTRUCTIONS:\n1. Mix\n2. Bake".
C22_SectionsOfNonEmptyLists ==
    Synthesized =>
        LET data == fn.parts
            expected ==
               (IF data.recipeIngredient # <<>> THEN IngredientSection(data) ELSE <<>>)
               \o (IF data.recipeInstructions # <<>> THEN InstructionSection(data) ELSE <<>>)
        IN  /\ LinesOf(fn.res[1]) = IF expected = <<>> THEN << <<>> >> ELSE expected
            /\ data = SampleRecipe =>
                  fn.res[1] = <<"I","N","G","R","E","D","I","E","N","T","S",":",LF,
                                "f","l","o","u","r",LF,"s","u","g","a","r",LF,LF,
                                "I","N","S","T","R","U","C","T","I","O","N","S",":",LF,
                                "1","."," ","M","i","x",LF,
                                "2","."," ","B","a","k","e">>

\* the recipe with [flour, sugar] and [{text: Mix}, {text: Bake}] was
\* synthesized
C22_Witness ==
    /\ Synthesized
    /\ fn.parts = SampleRecipe
    /\ Len(fn.res[1]) = 54
    /\ Len(LinesOf(fn.res[1])) = 7
    /\ LinesOf(fn.res[1])[7] = <<"2", ".", " ", "B", "a", "k", "e">>


(* --------------------------- scraper selection ------------------------ *)
\* get_scraper is applied to the addresses put together from fragments, with
\* any hint; the hint, the scraper returned and the calls made are recorded
GetScraper ==
    /\ fn.op = "url"
    /\ \E hint \in Hints :
          fn' = [fn EXCEPT !.op = "get_scraper",
                           !.res = <<hint, get_scraper(fn.arg, hint),
                                     get_scraper_calls(fn.arg, hint)>>]
    /\ UNCHANGED <<calls, fs, transcriber>>

NextSelect == GetScraper

SpecSelect == InitClassify /\ [][NextSelect]_vars

Selected == fn.op = "get_scraper"
SelectedHint == fn.res[1]
SelectedScraper == fn.res[2]
SelectedCalls == fn.res[3]

\* the scraper registered for the first platform, in the order TIKTOK,
\* YOUTUBE, INSTAGRAM, whose marker the address carries; WebScraper if none
ScraperByMarkers ==
    IF Carries("tiktok") THEN TikTokScraper
    ELSE IF Carries("youtube") THEN YouTubeScraper
    ELSE IF Carries("instagram") THEN InstagramScraper
    ELSE WebScraper

\* C23: with the hint absent or UNKNOWN, get_scraper returns the scraper
\* registered for detect_platform(url), which is the scraper of the first
\* platform whose marker the address carries: that scraper's can_handle
\* accepts the address, so the fallback taken when can_handle declines never
\* changes the choice, and the absent hint and the UNKNOWN hint select the
\* same scraper for every address.
C23_NoHintSelectsDetectedPlatform ==
    (Selected /\ SelectedHint \in {<<>>, <<PLATFORM_UNKNOWN>>}) =>
        /\ ScraperRegistry(detect_platform(fn.arg)) # <<>>
        /\ SelectedScraper = ScraperRegistry(detect_platform(fn.arg))[1]
        /\ SelectedScraper = ScraperByMarkers
        /\ can_handle(SelectedScraper, fn.arg)
        /\ SelectedScraper = get_scraper(fn.arg, <<>>)
        /\ SelectedScraper = get_scraper(fn.arg, <<PLATFORM_UNKNOWN>>)

\* an address with the short YouTube marker in capitals, given with the
\* UNKNOWN hint, went to YouTubeScraper after its can_handle was asked
C23_Witness ==
    /\ Selected
    /\ SelectedHint = <<PLATFORM_UNKNOWN>>
    /\ Carries("youtube") /\ ~Carries("tiktok")
    /\ Contains(fn.arg, <<"Y","o","u","T","u",".","B","e">>)
    /\ SelectedScraper = YouTubeScraper
    /\ SelectedCalls = <<"detect_platform", "can_handle">>

\* C24: a WEB hint selects WebScraper for every address, also for addresses
\* that carry a TikTok, YouTube or Instagram marker; the address is not
\* classified and no scraper's can_handle is called.
C24_WebHintSelectsWebScraper ==
    (Selected /\ SelectedHint = <<PLATFORM_WEB>>) =>
        /\ SelectedScraper = WebScraper
        /\ SelectedCalls = <<>>

\* an address carrying the TikTok marker, given with the WEB hint, went to
\* WebScraper
C24_Witness ==
    /\ Selected
    /\ SelectedHint = <<PLATFORM_WEB>>
    /\ Carries("tiktok")
    /\ detect_platform(fn.arg) = PLATFORM_TIKTOK
    /\ SelectedScraper = WebScraper


(* ------------------------ stage order in a call ----------------------- *)
VideoStages == <<"download", "extract", "transcribe">>

IsPrefix(s, t) == Len(s) <= Len(t) /\ \A i \in 1..Len(s) : s[i] = t[i]

\* the stages a video call has run so far are an initial part of download,
\* extract, transcribe, and only the last of them can have failed; the file
\* deletion comes last, and the call has a result exactly from then on
StagesInOrder(c) ==
    LET cleaned == c.stages # <<>> /\ c.stages[Len(c.stages)] = "cleanup"
        run == IF cleaned THEN SubSeq(c.stages, 1, Len(c.stages) - 1) ELSE c.stages
    IN
    /\ IsPrefix(run, VideoStages)
    /\ \A i \in 1..Len(run) : run[i] \in c.failed => i = Len(run)
    /\ c.failed \subseteq {run[i] : i \in 1..Len(run)}
    /\ cleaned <=> c.pc = "returned"
    /\ (c.result # <<>>) <=> (c.pc \in {"cleanup", "returned"})

\* one step of a video call, from record c to record d
VideoStep(c, d) ==
    LET ran(stage) == d.stages = Append(c.stages, stage)
        same == d.stages = c.stages /\ d.failed = c.failed
    IN
    \/ c.pc = "idle" /\ d.pc = "fetch" /\ d.stages = <<>>
    \/ c.pc = "fetch" /\ d.pc = "extract" /\ ran("download")
          /\ d.failed = {} /\ d.transcribe
    \/ c.pc = "fetch" /\ d.pc = "assemble" /\ ran("download")
          /\ d.failed = {} /\ ~d.transcribe
    \/ c.pc = "fetch" /\ d.pc = "except" /\ ran("download")
          /\ d.failed = {"download"}
    \/ c.pc = "extract" /\ d.pc = "transcribe" /\ ran("extract") /\ d.failed = {}
    \/ c.pc = "extract" /\ d.pc = "assemble" /\ ran("extract")
          /\ d.failed = {"extract"}
    \/ c.pc = "transcribe" /\ d.pc = "assemble" /\ ran("transcribe")
          /\ d.failed \subseteq {"transcribe"}
    \/ c.pc \in {"assemble", "except"} /\ d.pc = "cleanup" /\ same
          /\ c.result = <<>> /\ d.result # <<>>
    \/ c.pc = "cleanup" /\ d.pc = "returned" /\ ran("cleanup")
          /\ d.failed = c.failed /\ d.result = c.result
    \/ c.pc = "returned" /\ d.pc = "idle"

\* record c is a call of YouTubeScraper or TikTokScraper that has begun
InVideoCall(c) == c.scraper \in VideoScrapers /\ c.pc # "idle"

\* C25: in one scrape call of YouTubeScraper or TikTokScraper every step is
\* one of: download; then, if it succeeded and transcribe is set, audio
\* extraction; then, if that succeeded, transcription; then the result is
\* assembled (after the stages ended by success or failure); then the finally
\* block deletes the files; then the call returns.  Each stage runs at most
\* once and no failed stage is run again.
C25_StagesInFixedOrder ==
    /\ [](\A w \in Workers :
             InVideoCall(calls[w]) => StagesInOrder(calls[w]))
    /\ [][\A w \in Workers :
             (calls'[w] # calls[w] /\ (InVideoCall(calls[w]) \/ InVideoCall(calls'[w])))
                => VideoStep(calls[w], calls'[w])]_vars

\* a YouTube call returned after download and extraction succeeded and the
\* transcription failed: three stages, each once, result assembled, files gone
C25_Witness ==
    \E w \in Workers :
        /\ calls[w].pc = "returned"
        /\ calls[w].scraper = YouTubeScraper
        /\ calls[w].stages = VideoStages \o <<"cleanup">>
        /\ calls[w].failed = {"transcribe"}
        /\ calls[w].result # <<>>
        /\ calls[w].written # {}
        /\ calls[w].written \cap fs = {}


(* ----------------------------- termination ---------------------------- *)
\* the next step of the scrape call worker w is in: a collaborator
\* invocation that returns or fails, or a step of scrape's own code
ScrapeStep(w) ==
    \/ Download(w) /\ ScrapeOnly
    \/ ExtractAudio(w) /\ ScrapeOnly
    \/ Transcribe(w) /\ ScrapeOnly
    \/ FetchPost(w) /\ ScrapeOnly
    \/ DownloadPost(w) /\ ScrapeOnly
    \/ FetchPage(w) /\ ScrapeOnly
    \/ AssembleResult(w) /\ ScrapeOnly
    \/ HandleException(w) /\ ScrapeOnly
    \/ Cleanup(w) /\ ScrapeOnly

\* scrape runs to its end on its thread: every collaborator invocation
\* eventually returns or fails and the steps in between are taken
NextTerminating ==
    \E w \in Workers :
        \/ NoCallInFlight /\ ScrapeUrl(w) /\ ScrapeOnly
        \/ ScrapeStep(w)

SpecTerminating ==
    Init /\ [][NextTerminating]_vars /\ \A w \in Workers : WF_vars(ScrapeStep(w))

\* the call of worker w has returned a ScrapeResult and, for the three
\* scrapers that have one, its finally block has run
ReturnedResult(w) ==
    /\ Returned(w)
    /\ calls[w].result # <<>>
    /\ calls[w].scraper # WebScraper =>
          calls[w].stages # <<>> /\ calls[w].stages[Len(calls[w].stages)] = "cleanup"

\* C26: every scrape call that has begun eventually returns a ScrapeResult
\* with its finally block run, provided every collaborator invocation
\* eventually returns or fails.
C26_EveryCallReturns ==
    \A w \in Workers : InFlight(w) ~> ReturnedResult(w)

\* an Instagram call returned a result after its download and its audio
\* extraction, the extraction having failed
C26_Witness ==
    \E w \in Workers :
        /\ ReturnedResult(w)
        /\ calls[w].scraper = InstagramScraper
        /\ "extract" \in calls[w].failed
        /\ Len(calls[w].stages) >= 3


(* ------------------------ construction at start-up -------------------- *)
\* the environment of the process: TRANSCRIPTION_PROVIDER (<<>> when unset),
\* the API key variable of the provider, GOOGLE_CLOUD_CREDENTIALS_PATH and
\* whether ambient application-default credentials exist
Environments ==
    {[provider |-> p, key |-> k, credentials_path |-> c, ambient |-> g] :
        p \in {<<>>} \cup {<<name>> : name \in ProviderNames},
        k \in {<<>>, <<"k">>}, c \in {<<>>, <<"k">>}, g \in BOOLEAN}

\* a factory function that builds nothing and leaves the backend to the
\* first call
create_transcriber_deferring(env) ==
    [Transcriber_init(
        [provider |-> IF env.provider = <<>> THEN ProviderElevenLabs
                      ELSE env.provider[1],
         api_key |-> <<>>, env_key |-> env.key,
         credentials_path |-> env.credentials_path, ambient |-> env.ambient,
         use_api |-> FALSE])
     EXCEPT !.state = "ready", !.config = <<>>]

\* create_transcriber() as the scrapers call it: no provider argument, so the
\* name comes from TRANSCRIPTION_PROVIDER with the default 'elevenlabs', and
\* Transcriber(provider=provider) gets no keyword arguments
create_transcriber(env) ==
    Transcriber_init(
        [provider |-> IF env.provider = <<>> THEN ProviderElevenLabs
                      ELSE env.provider[1],
         api_key |-> <<>>, env_key |-> env.key,
         credentials_path |-> env.credentials_path, ambient |-> env.ambient,
         use_api |-> FALSE])

\* ScraperServicer.__init__ -> ScraperFactory.__init__: YouTubeScraper,
\* TikTokScraper and InstagramScraper each call create_transcriber() in their
\* constructor, in the same environment; an exception raised there leaves the
\* constructors, so neither the factory nor the servicer comes to exist.  The
\* three Transcriber objects are equal and are held as one.
ConstructServicer ==
    /\ transcriber.state = "absent"
    /\ \E env \in Environments : transcriber' = create_transcriber(env)
    /\ UNCHANGED <<calls, fs, fn>>

\* self.factory exists: the constructors returned
FactoryExists == transcriber.state = "ready"

\* requests reach get_scraper only through the factory of a constructed
\* servicer; one call is followed from dispatch to its return
NextStartup ==
    \/ ConstructServicer
    \/ \E w \in Workers :
          \/ FactoryExists /\ NoCallInFlight /\ ScrapeUrl(w) /\ ScrapeOnly
          \/ ScrapeStep(w)

SpecStartup == Init /\ [][NextStartup]_vars

\* the messages of the configuration errors the constructors raise
ConfigurationMessages ==
    {"Unknown transcription provider", "ElevenLabs API key not found",
     "Your default credentials were not found", "API key required for Whisper API"}

\* C27: a configuration error of the transcription provider (unknown name,
\* missing credential) is raised while the servicer and its factory are
\* constructed and then no call is ever dispatched, to WebScraper or any
\* other scraper; whenever a call is in flight the factory was constructed
\* with a known provider whose credential is present and whose backend is
\* built, and no call carries a configuration error as its exception or in
\* its result.
C27_ConfigurationErrorOnlyAtConstruction ==
    /\ transcriber.state # "absent" =>
          LET a == transcriber.args[1]
              faulty == \/ a.provider \notin {ProviderElevenLabs, ProviderGoogle,
                                              ProviderWhisper}
                        \/ CredentialMissing(a)
          IN  /\ faulty <=> transcriber.state = "failed"
              /\ faulty => /\ transcriber.config # <<>>
                           /\ transcriber.config[1] \in ConfigurationMessages
                           /\ \A w \in Workers : ~InFlight(w)
    /\ \A w \in Workers :
          InFlight(w) =>
             /\ transcriber.state = "ready"
             /\ transcriber.config = <<>>
             /\ transcriber.backend = <<BackendOf(transcriber.provider)>>
             /\ calls[w].exc # <<>> => calls[w].exc[1] \notin ConfigurationMessages
             /\ calls[w].result # <<>> =>
                   \A i \in DOMAIN ResultOf(w).error :
                      ResultOf(w).error[i] \notin ConfigurationMessages

\* with TRANSCRIPTION_PROVIDER unset and no API key the default provider
\* could not be constructed, and no call is in flight
C27_Witness ==
    /\ transcriber.state = "failed"
    /\ transcriber.provider = ProviderElevenLabs
    /\ transcriber.config = <<"ElevenLabs API key not found">>
    /\ \A w \in Workers : ~InFlight(w)

====
